---- MODULE Spec2Model ----
(***************************************************************************)
(* The real-time weather-alert distribution core of the FastAPI service:   *)
(* the WebSocket connection registry (src/src/weather/websocket_manager.py)*)
(* with its endpoint handler (websocket_routes.py), the Redis pub/sub      *)
(* fabric (redis_pubsub.py), the farm-deletion cleanup (farms/routes.py)   *)
(* and the alert monitor's publish step (alert_monitor.py).                *)
(*                                                                         *)
(* Scheduling is asyncio on one event loop: the code between two awaits is *)
(* one atomic step.  Acquiring the free asyncio.Lock does not suspend, so  *)
(* a critical section without an inner await is one step; disconnect()     *)
(* awaits the Redis delete inside its critical section and is two steps    *)
(* with the lock held in between.  A task that needs the lock while it is  *)
(* held simply is not enabled.                                             *)
(*                                                                         *)
(* Coordinates are integers in thousandths of a degree (37.42 is 37420);   *)
(* a location key "37.40,-122.10" is the pair of its two numbers in        *)
(* hundredths, <<3740, -12210>>.                                           *)
(***************************************************************************)
EXTENDS Integers, Sequences, FiniteSets, TLC

\* ------------------------------------------------------------------ bounds
NumConns == 2
MaxQueue == 1
NumTasks == 2
MaxMarks == 5
GovMarks == 1
MaxRules == 3
PushCalls == 3
MaxLoops == 2
MaxCalls == 3
MonitorPushes == 2

Conns == 1..NumConns
None == "None"

\* Task identities (the holder of the registry lock is one of them, or Free).
Free == <<>>
Handler(c) == <<"handler", c>>
Worker == <<"worker">>

\* A position is the pair <<lat, lon>>; NoPos stands for lat or lon absent.
NoPos == <<>>

\* The arguments of no connect() in progress.
NoReq == [user_id |-> None, pos |-> NoPos, crop |-> None]

\* ------------------------------------------------------------------ inputs
\* The (lat, lon) pairs of the specifications below are 37.42,-122.08 and
\* 37.421,-122.079, which round to one 0.1-degree bucket, and 37.48,-122.08
\* in the neighbouring bucket.  None is on a half-bucket tie, where the float
\* division of the source can differ from exact arithmetic.
Payloads == {[type |-> "weather_alert", risk |-> "high"]}
NoMsg == [type |-> "none"]

\* ----------------------------------------------------------- pure helpers
\* str.lower() on the crop identifiers of the model.
Lower(s) ==
  CASE s = "Potato" -> "potato"
    [] s = "Rice" -> "rice"
    [] OTHER -> s

\* Python's round(n / d) for integers n and d > 0: nearest, ties to even.
Round(n, d) ==
  LET q == n \div d
      r == n % d
  IN  IF 2 * r < d THEN q
      ELSE IF 2 * r > d THEN q + 1
      ELSE IF q % 2 = 0 THEN q ELSE q + 1

\* ConnectionManager._get_location_key with radius 0.1: round(x / 0.1) * 0.1
\* printed with two decimals, kept as the number of hundredths.
_get_location_key(lat, lon) == <<10 * Round(lat, 100), 10 * Round(lon, 100)>>

\* f"{x:.2f}" of a coordinate, in hundredths.
Fmt2(x) == Round(x, 10)

Restrict(f, S) == [x \in S |-> f[x]]

\* subs[k].add(ws), creating the entry first when the key is new.
IndexAdd(idx, k, c) ==
  IF k \in DOMAIN idx THEN [idx EXCEPT ![k] = @ \cup {c}]
  ELSE [x \in DOMAIN idx \cup {k} |-> IF x = k THEN {c} ELSE idx[x]]

\* Fault variant of IndexDiscard: the emptied entry is left in the index.
IndexDiscardKeepingEmpty(idx, k, c) ==
  IF k \in DOMAIN idx THEN [idx EXCEPT ![k] = @ \ {c}] ELSE idx

\* if k in subs: subs[k].discard(ws); if not subs[k]: del subs[k]
IndexDiscard(idx, k, c) ==
  IF k \in DOMAIN idx
  THEN IF idx[k] \ {c} = {}
       THEN Restrict(idx, DOMAIN idx \ {k})
       ELSE [idx EXCEPT ![k] = @ \ {c}]
  ELSE idx

\* The loops of disconnect(): IndexDiscard for every key of the client's set.
RECURSIVE DiscardAll(_, _, _)
DiscardAll(idx, keys, c) ==
  IF keys = {} THEN idx
  ELSE LET k == CHOOSE x \in keys : TRUE
       IN  DiscardAll(IndexDiscard(idx, k, c), keys \ {k}, c)

Subscribers(idx, k) == IF k \in DOMAIN idx THEN idx[k] ELSE {}

\* A list of sockets as the number of times each occurs in it.
ZeroBag == [c \in Conns |-> 0]
BagOf(S) == [c \in Conns |-> IF c \in S THEN 1 ELSE 0]
BagEmpty(b) == \A c \in Conns : b[c] = 0

\* ------------------------------------------------------------------- state
VARIABLES
  active_connections,      \* ws -> client_info, for the registered sockets
  location_subscriptions,  \* location key -> set of ws
  crop_subscriptions,      \* lower-cased crop -> set of ws
  _lock,                   \* Free, or the task inside disconnect()'s section
  wsState,                 \* ws -> "connecting" | "open" | "closed"
  redis_subscriptions,     \* ws -> the mirrored weather:subscription:<id> value
  pc,                      \* ws -> position of its endpoint handler
  req,                     \* ws -> the arguments of its connect() in progress
  call,                    \* the worker task's registry call and its locals
  raised,                  \* TRUE once a registry call raised to its caller
  returnedDisconnect,      \* history: ws -> disconnect(ws) calls returned, up to 2
  channel,                 \* messages queued for the listener on weather:alerts
  lastPublish,             \* history: origin and channels of the last publish
  listener,                \* the task of _listen_for_messages()
  store,                   \* the notif:* keys of the key-value store
  task,                    \* caller -> its governance call and the call's locals
  hist,                    \* history of the marks and deliveries since a key expired
  all_rules,               \* the content of crops_rules.json
  weather,                 \* the observation last fetched
  crop_asked,              \* the crop argument of the last apply_rules()
  verdict,                 \* the result of the last apply_rules()
  monitor,                 \* the AlertMonitor object and its caller
  loops                    \* the _monitor_loop() tasks created so far

registry == <<active_connections, location_subscriptions, crop_subscriptions>>
handlers == <<pc, req>>
fabric == <<channel, lastPublish, listener>>
governance == <<store, task, hist>>
engine == <<all_rules, weather, crop_asked, verdict>>
hub == <<registry, _lock, wsState, redis_subscriptions, handlers, call, raised,
         returnedDisconnect, fabric>>
monitoring == <<monitor, loops>>
vars == <<hub, governance, engine, monitoring>>

Registered == DOMAIN active_connections

\* The worker between two calls.  The fields are the locals of the call in
\* progress: pending is the list the call still has to walk, sent counts the
\* sends it has attempted, disconnected is the list of sockets whose send
\* failed, cleaned its part already passed to disconnect(), target the socket
\* its disconnect() is removing (0: none), count is disconnected_count;
\* history: expect is the set of sockets the call's contract names, failed
\* the sockets whose send has failed in this call.
\* The task of _listen_for_messages() that RedisPubSub.start() created when
\* the application started: it waits for the next message of its channel.
\* pc "done": the task has ended, and outcome is how ("returned": the
\* coroutine ran to its end, "cancelled": it ended with CancelledError);
\* history: skipped counts the messages it logged and passed over, up to 2.
Listening == [pc |-> "listening", outcome |-> "none", skipped |-> 0]

IdleCall ==
  [op |-> "idle", phase |-> "idle", user_id |-> None, pos |-> NoPos,
   location_key |-> NoPos, crop |-> "", msg |-> NoMsg, pending |-> ZeroBag,
   sent |-> ZeroBag, disconnected |-> {}, cleaned |-> {}, target |-> 0,
   count |-> 0, expect |-> {}, failed |-> {}]

HubInit ==
  /\ active_connections = <<>>
  /\ location_subscriptions = <<>>
  /\ crop_subscriptions = <<>>
  /\ _lock = Free
  /\ wsState = [c \in Conns |-> "connecting"]
  /\ redis_subscriptions = <<>>
  /\ pc = [c \in Conns |-> "idle"]
  /\ req = [c \in Conns |-> NoReq]
  /\ call = IdleCall
  /\ raised = FALSE
  /\ returnedDisconnect = [c \in Conns |-> 0]
  /\ channel = <<>>
  /\ lastPublish = [origin |-> None, channels |-> {}]
  /\ listener = Listening

\* The callers of the governance layer: monitors of several server instances
\* and direct callers, each a task of its own.
Tasks == 1..NumTasks

\* (user_id, notification_type, severity, content_summary) of no call.
NoArgs == <<"", "", "", "">>

\* The dict should_send_notification() has not returned yet.
Pending == [should_send |-> FALSE, reason |-> "pending"]

\* A task between two calls.  args and force are the arguments of the call
\* in progress, check the dict should_send_notification() returned, found
\* the truth value of mark_notification_sent()'s last redis.get(), sent the
\* outcome of FCMService.send_notification() ("none": not called); history:
\* marks, the hist.marks of the user when should_send_notification() was
\* called.
IdleTask ==
  [pc |-> "idle", op |-> "none", args |-> NoArgs, force |-> FALSE,
   check |-> Pending, found |-> FALSE, sent |-> "none", marks |-> 0]

\* History of no should_send_notification().
NoLast == [op |-> "none", args |-> NoArgs, force |-> FALSE, check |-> Pending]

\* History.  last is the should_send_notification() that returned last: its
\* caller, arguments and result.  left is the number of calls the
\* tasks may still start.  No key has expired since the events the other
\* fields hold, so that they lie within one window: marked, the argument
\* tuples whose dedup marker a mark_notification_sent() has set; marks, per
\* user, the calls of mark_notification_sent() that have returned;
\* delivered, per argument tuple, the pushes FCM has accepted.
NoHist == [marked |-> {}, marks |-> <<>>, delivered |-> <<>>, left |-> 0, last |-> NoLast]

GovernanceIdle ==
  /\ store = <<>>
  /\ task = [p \in Tasks |-> IdleTask]
  /\ hist = NoHist

\* The verdict of no evaluation.
NoVerdict == [risk |-> "", severity |-> "", message |-> "", advice |-> ""]

EngineIdle ==
  /\ all_rules = <<>>
  /\ weather = <<>>
  /\ crop_asked = ""
  /\ verdict = NoVerdict

\* A task of _monitor_loop().  pc "none": not created; cancel: task.cancel()
\* was called and its CancelledError is not raised yet; todo: the
\* subscriptions of the tick still to check, the first being checked; wait:
\* the seconds of the sleep; history of the tick: subs, the subscriptions
\* enumerated, enum_failed, whether the enumeration failed, failed, the
\* subscriptions whose check raised; cut: where the cancellation hit.
LoopIds == 1..MaxLoops
NoLoop ==
  [pc |-> "none", cancel |-> FALSE, todo |-> <<>>, wait |-> 0, subs |-> <<>>,
   enum_failed |-> FALSE, failed |-> {}, cut |-> "none"]

\* AlertMonitor.__init__; call is the position of the caller of start() and
\* stop(), calls the number of calls made (history).
MonitorIdle ==
  /\ monitor = [running |-> FALSE, _task |-> 0, call |-> "idle", calls |-> 0]
  /\ loops = [i \in LoopIds |-> NoLoop]

Init ==
  /\ HubInit
  /\ GovernanceIdle
  /\ EngineIdle
  /\ MonitorIdle

\* ------------------------------------------------- the registry's operations
\* The client_info record and the auto-subscriptions of connect().  lat and
\* lon are kept together as pos.
ClientInfo(user, pos, crop) ==
  [user_id |-> user,
   locations |-> IF pos # NoPos THEN {_get_location_key(pos[1], pos[2])} ELSE {},
   crops |-> IF crop # None THEN {Lower(crop)} ELSE {},
   pos |-> pos, crop |-> crop]

\* The value connect() mirrors under weather:subscription:<connection_id>.
SubscriptionData(user, pos, crop) == [user_id |-> user, pos |-> pos, crop |-> crop]

\* The history of returned disconnect(ws) calls after one more for c.
Returned(c) == [returnedDisconnect EXCEPT ![c] = IF @ < 2 THEN @ + 1 ELSE @]

\* Fault variant of DisconnectEnters: no membership test.
DisconnectEntersAlways(c) == TRUE

\* disconnect(): "if websocket in self.active_connections".
DisconnectEnters(c) == c \in Registered

\* Fault variant of DisconnectIndices: the crop loop is missing.
DisconnectIndicesLocationsOnly(c) ==
  [loc |-> DiscardAll(location_subscriptions, active_connections[c].locations, c),
   crop |-> crop_subscriptions]

\* disconnect(): the two loops that take the socket out of the indices.
DisconnectIndices(c) ==
  [loc |-> DiscardAll(location_subscriptions, active_connections[c].locations, c),
   crop |-> DiscardAll(crop_subscriptions, active_connections[c].crops, c)]

\* disconnect(ws) called by task t, up to its await of the Redis delete.
\* For a socket that is not in the table the call returns at once; entering
\* the body for such a socket would be a KeyError.
DisconnectBegin(t, c) ==
  /\ _lock = Free
  /\ IF DisconnectEnters(c)
     THEN IF c \in Registered
          THEN /\ location_subscriptions' = DisconnectIndices(c).loc
               /\ crop_subscriptions' = DisconnectIndices(c).crop
               /\ _lock' = t
               /\ UNCHANGED <<raised, returnedDisconnect>>
          ELSE /\ raised' = TRUE
               /\ UNCHANGED <<location_subscriptions, crop_subscriptions, _lock,
                              returnedDisconnect>>
     ELSE /\ returnedDisconnect' = Returned(c)
          /\ UNCHANGED <<location_subscriptions, crop_subscriptions, _lock, raised>>
  /\ UNCHANGED <<active_connections, redis_subscriptions>>

\* The rest of disconnect(ws): the Redis delete (its failure is caught and
\* printed), del active_connections[ws], and the release of the lock.
DisconnectEnd(t, c, deleted) ==
  /\ _lock = t
  /\ redis_subscriptions' =
       IF deleted
       THEN Restrict(redis_subscriptions, DOMAIN redis_subscriptions \ {c})
       ELSE redis_subscriptions
  /\ active_connections' = Restrict(active_connections, Registered \ {c})
  /\ _lock' = Free
  /\ returnedDisconnect' = Returned(c)
  /\ UNCHANGED <<location_subscriptions, crop_subscriptions, raised>>

\* subscribe_location(ws, lat, lon)
SubscribeLocation(c, pos) ==
  /\ _lock = Free
  /\ IF c \in Registered
     THEN /\ active_connections' =
               [active_connections EXCEPT
                  ![c].locations = @ \cup {_get_location_key(pos[1], pos[2])}]
          /\ location_subscriptions' =
               IndexAdd(location_subscriptions, _get_location_key(pos[1], pos[2]), c)
     ELSE UNCHANGED <<active_connections, location_subscriptions>>
  /\ UNCHANGED <<crop_subscriptions, _lock, wsState, redis_subscriptions, handlers,
                 call, raised, returnedDisconnect, fabric>>
  /\ UNCHANGED <<governance, engine, monitoring>>

\* subscribe_crop(ws, crop)
SubscribeCrop(c, crop) ==
  /\ _lock = Free
  /\ IF c \in Registered
     THEN /\ active_connections' =
               [active_connections EXCEPT ![c].crops = @ \cup {Lower(crop)}]
          /\ crop_subscriptions' = IndexAdd(crop_subscriptions, Lower(crop), c)
     ELSE UNCHANGED <<active_connections, crop_subscriptions>>
  /\ UNCHANGED <<location_subscriptions, _lock, wsState, redis_subscriptions,
                 handlers, call, raised, returnedDisconnect, fabric>>
  /\ UNCHANGED <<governance, engine, monitoring>>

\* unsubscribe_location(ws, lat, lon)
UnsubscribeLocation(c, pos) ==
  /\ _lock = Free
  /\ IF c \in Registered
     THEN /\ active_connections' =
               [active_connections EXCEPT
                  ![c].locations = @ \ {_get_location_key(pos[1], pos[2])}]
          /\ location_subscriptions' =
               IndexDiscard(location_subscriptions, _get_location_key(pos[1], pos[2]), c)
     ELSE UNCHANGED <<active_connections, location_subscriptions>>
  /\ UNCHANGED <<crop_subscriptions, _lock, wsState, redis_subscriptions, handlers,
                 call, raised, returnedDisconnect, fabric>>
  /\ UNCHANGED <<governance, engine, monitoring>>

\* unsubscribe_crop(ws, crop)
UnsubscribeCrop(c, crop) ==
  /\ _lock = Free
  /\ IF c \in Registered
     THEN /\ active_connections' =
               [active_connections EXCEPT ![c].crops = @ \ {Lower(crop)}]
          /\ crop_subscriptions' = IndexDiscard(crop_subscriptions, Lower(crop), c)
     ELSE UNCHANGED <<active_connections, crop_subscriptions>>
  /\ UNCHANGED <<location_subscriptions, _lock, wsState, redis_subscriptions,
                 handlers, call, raised, returnedDisconnect, fabric>>
  /\ UNCHANGED <<governance, engine, monitoring>>

\* ------------------------------------------ the /weather-alerts handler
\* weather_alerts() up to connect()'s await of the Redis set: accept(), then
\* the registration under the lock.  A failed accept() makes connect() return
\* None and the handler ends.  Sockets are interchangeable, so they are
\* opened in the order of their numbers.  A socket object is registered
\* once; the history of its returned disconnect() calls starts with it.
Connect(c, user, pos, crop, accepted) ==
  /\ pc[c] = "idle"
  /\ \A d \in Conns : d < c => pc[d] # "idle"
  /\ IF accepted
     THEN /\ _lock = Free
          /\ wsState' = [wsState EXCEPT ![c] = "open"]
          /\ active_connections' =
               [x \in Registered \cup {c} |->
                  IF x = c THEN ClientInfo(user, pos, crop)
                  ELSE active_connections[x]]
          /\ location_subscriptions' =
               IF pos # NoPos
               THEN IndexAdd(location_subscriptions, _get_location_key(pos[1], pos[2]), c)
               ELSE location_subscriptions
          /\ crop_subscriptions' =
               IF crop # None
               THEN IndexAdd(crop_subscriptions, Lower(crop), c)
               ELSE crop_subscriptions
          /\ pc' = [pc EXCEPT ![c] = "redis_set"]
          /\ req' = [req EXCEPT ![c] = SubscriptionData(user, pos, crop)]
          /\ returnedDisconnect' = [returnedDisconnect EXCEPT ![c] = 0]
     ELSE /\ wsState' = [wsState EXCEPT ![c] = "closed"]
          /\ pc' = [pc EXCEPT ![c] = "done"]
          /\ UNCHANGED <<registry, req, returnedDisconnect>>
  /\ UNCHANGED <<_lock, redis_subscriptions, call, raised, fabric>>
  /\ UNCHANGED <<governance, engine, monitoring>>

\* The end of connect() and the confirmation envelope.  The Redis set and the
\* confirmation's send_json are outside every try block: when either raises,
\* the handler ends without reaching its finally clause, and the server closes
\* the socket.
ConnectEnd(c, outcome) ==
  /\ pc[c] = "redis_set"
  /\ IF outcome = "redis_error"
     THEN UNCHANGED redis_subscriptions
     ELSE redis_subscriptions' =
            IF req[c].pos # NoPos /\ req[c].crop # None
            THEN [x \in DOMAIN redis_subscriptions \cup {c} |->
                    IF x = c THEN req[c] ELSE redis_subscriptions[x]]
            ELSE redis_subscriptions
  /\ IF outcome = "ok" /\ wsState[c] = "open"
     THEN /\ pc' = [pc EXCEPT ![c] = "receive"]
          /\ UNCHANGED wsState
     ELSE /\ pc' = [pc EXCEPT ![c] = "done"]
          /\ wsState' = [wsState EXCEPT ![c] = "closed"]
  /\ req' = [req EXCEPT ![c] = NoReq]
  /\ UNCHANGED <<registry, _lock, call, raised, returnedDisconnect, fabric>>
  /\ UNCHANGED <<governance, engine, monitoring>>

\* The receive loop ends (WebSocketDisconnect, or an error while answering a
\* ping) and the finally clause calls manager.disconnect(websocket).  When
\* that call is a no-op the handler returns in the same step and the server
\* closes the socket.
HandlerExit(c, clientLeft) ==
  /\ pc[c] = "receive"
  /\ DisconnectBegin(Handler(c), c)
  /\ wsState' = IF clientLeft \/ _lock' = Free
                THEN [wsState EXCEPT ![c] = "closed"] ELSE wsState
  /\ pc' = [pc EXCEPT ![c] = IF _lock' = Free THEN "done" ELSE "redis_delete"]
  /\ UNCHANGED <<req, call, fabric>>
  /\ UNCHANGED <<governance, engine, monitoring>>

\* disconnect() returns, the handler returns, the server closes the socket.
HandlerDone(c, deleted) ==
  /\ pc[c] = "redis_delete"
  /\ DisconnectEnd(Handler(c), c, deleted)
  /\ pc' = [pc EXCEPT ![c] = "done"]
  /\ wsState' = [wsState EXCEPT ![c] = "closed"]
  /\ UNCHANGED <<req, call, fabric>>
  /\ UNCHANGED <<governance, engine, monitoring>>

\* ------------------------------------------------ calls made by the worker
\* The worker is the task that calls into the registry from outside the
\* endpoint handlers: the pub/sub listener's callback, and the routes.
CallerIdle == call.phase \in {"idle", "returned"}

Broadcasts ==
  {"broadcast_to_location", "broadcast_to_crop", "broadcast_to_all",
   "broadcast_to_matching_clients"}

\* Where a call goes on after a step: the next element of the list it walks,
\* then (in a broadcast) the clean-up loop, then its return, at which its
\* locals are gone.  disconnect_by_user_and_location returns its count to the
\* route, which keeps it.
Continue(r) ==
  IF r.op = "disconnect_by_user_and_location"
  THEN IF BagEmpty(r.pending)
       THEN [r EXCEPT !.phase = "returned", !.target = 0]
       ELSE [r EXCEPT !.phase = "close", !.target = 0]
  ELSE IF r.op \notin Broadcasts THEN IdleCall
  ELSE IF ~BagEmpty(r.pending) THEN [r EXCEPT !.phase = "send", !.target = 0]
  ELSE IF r.disconnected \ r.cleaned # {}
       THEN [r EXCEPT !.phase = "cleanup", !.target = 0]
  ELSE IdleCall

\* Fault variant of AfterSnapshot: the sends are inside the "async with".
HeldThroughSends(t) == t

\* The lock when task t has taken its snapshot: the "async with self._lock"
\* of a broadcast holds the copy of the subscriber set and nothing else.
AfterSnapshot(t) == Free

\* The start of a broadcast: the snapshot taken under the lock.
StartCall(name, key, crop, msg, snap, expect) ==
  /\ CallerIdle
  /\ _lock = Free
  /\ call' = Continue([IdleCall EXCEPT !.op = name, !.location_key = key,
                                       !.crop = crop, !.msg = msg,
                                       !.pending = snap, !.expect = expect])
  /\ _lock' = AfterSnapshot(Worker)
  /\ UNCHANGED <<registry, wsState, redis_subscriptions, handlers, raised,
                 returnedDisconnect>>

\* broadcast_to_location(lat, lon, message)
BroadcastToLocation(pos, msg) ==
  /\ UNCHANGED fabric
  /\ StartCall("broadcast_to_location", _get_location_key(pos[1], pos[2]), "", msg,
            BagOf(Subscribers(location_subscriptions,
                              _get_location_key(pos[1], pos[2]))),
            Subscribers(location_subscriptions, _get_location_key(pos[1], pos[2])))
  /\ UNCHANGED <<governance, engine, monitoring>>

\* broadcast_to_crop(crop, message)
BroadcastToCrop(crop, msg) ==
  /\ UNCHANGED fabric
  /\ StartCall("broadcast_to_crop", NoPos, Lower(crop), msg,
            BagOf(Subscribers(crop_subscriptions, Lower(crop))),
            Subscribers(crop_subscriptions, Lower(crop)))
  /\ UNCHANGED <<governance, engine, monitoring>>

\* broadcast_to_all(message)
BroadcastToAll(msg) ==
  /\ UNCHANGED fabric
  /\ StartCall("broadcast_to_all", NoPos, "", msg, BagOf(Registered), Registered)
  /\ UNCHANGED <<governance, engine, monitoring>>

\* Fault variant of MatchingClients: a list, not a set, is filled.
MatchingClientsAsList(key, crop) ==
  [c \in Conns |->
     (IF c \in Subscribers(location_subscriptions, key) THEN 1 ELSE 0)
     + (IF crop # "" /\ c \in Subscribers(crop_subscriptions, crop) THEN 1 ELSE 0)]

\* Fault variant of MatchingClients: the crop match is missing.
MatchingClientsLocationOnly(key, crop) ==
  BagOf(Subscribers(location_subscriptions, key))

\* broadcast_to_matching_clients(): matching_clients, a set, filled from the
\* location index and, "if crop and crop in ...", from the crop index.
MatchingClients(key, crop) ==
  BagOf(Subscribers(location_subscriptions, key)
        \cup (IF crop # "" THEN Subscribers(crop_subscriptions, crop) ELSE {}))

\* alert_data.get("crop", "").lower()
EnvelopeCrop(alert_data) ==
  IF "crop" \in DOMAIN alert_data THEN Lower(alert_data.crop) ELSE ""

\* alert_data.get("data", alert_data)
EnvelopeMessage(alert_data) ==
  IF "data" \in DOMAIN alert_data THEN alert_data.data ELSE alert_data

\* broadcast_to_matching_clients(alert_data) up to its first send.  An
\* envelope without lat or lon (no pos field) makes it return at once.
BroadcastToMatchingClients(alert_data) ==
  IF "pos" \notin DOMAIN alert_data
  THEN StartCall("broadcast_to_matching_clients", NoPos, "", NoMsg, ZeroBag, {})
  ELSE StartCall("broadcast_to_matching_clients",
                 _get_location_key(alert_data.pos[1], alert_data.pos[2]),
                 EnvelopeCrop(alert_data), EnvelopeMessage(alert_data),
                 MatchingClients(_get_location_key(alert_data.pos[1],
                                                   alert_data.pos[2]),
                                 EnvelopeCrop(alert_data)),
                 Subscribers(location_subscriptions,
                             _get_location_key(alert_data.pos[1], alert_data.pos[2]))
                 \cup Subscribers(crop_subscriptions, EnvelopeCrop(alert_data)))

\* Fault variant of SendFailure: the exception leaves the broadcast.
SendFailureRaises(c) == [disconnected |-> call.disconnected, raises |-> TRUE]

\* "except Exception: disconnected.append(websocket)" of the send loops.
SendFailure(c) == [disconnected |-> call.disconnected \cup {c}, raises |-> FALSE]

\* One iteration of a broadcast's send loop: await websocket.send_json(message).
\* "peer_gone" is a send that fails because the transport is gone, "error" one
\* that fails with the socket left as it was.
Send(c, outcome) ==
  /\ call.phase = "send"
  /\ call.pending[c] > 0
  /\ outcome = "ok" => wsState[c] = "open"
  /\ wsState' = IF outcome = "peer_gone"
                THEN [wsState EXCEPT ![c] = "closed"] ELSE wsState
  /\ LET f == IF outcome = "ok"
              THEN [disconnected |-> call.disconnected, raises |-> FALSE]
              ELSE SendFailure(c)
     IN  IF f.raises
         THEN /\ raised' = TRUE
              /\ call' = IdleCall
         ELSE /\ call' = Continue([call EXCEPT !.pending[c] = @ - 1,
                                               !.sent[c] = @ + 1,
                                               !.disconnected = f.disconnected,
                                               !.failed =
                                                 IF outcome = "ok" THEN @
                                                 ELSE @ \cup {c}])
              /\ UNCHANGED raised
  /\ UNCHANGED <<registry, _lock, redis_subscriptions, handlers,
                 returnedDisconnect, fabric>>
  /\ UNCHANGED <<governance, engine, monitoring>>

\* One iteration of "for ws in disconnected: await self.disconnect(ws)".
Cleanup(c) ==
  /\ call.phase = "cleanup"
  /\ c \in call.disconnected \ call.cleaned
  /\ DisconnectBegin(Worker, c)
  /\ call' = IF raised' /\ ~raised THEN IdleCall
             ELSE IF _lock' = Free
             THEN Continue([call EXCEPT !.cleaned = @ \cup {c}])
             ELSE [call EXCEPT !.phase = "redis_delete", !.target = c]
  /\ UNCHANGED <<wsState, handlers, fabric>>
  /\ UNCHANGED <<governance, engine, monitoring>>

\* send_personal_message(message, websocket) up to the end of its send.
SendPersonalMessage(c, msg, outcome) ==
  /\ CallerIdle
  /\ outcome = "ok" => wsState[c] = "open"
  /\ wsState' = IF outcome = "peer_gone"
                THEN [wsState EXCEPT ![c] = "closed"] ELSE wsState
  /\ call' = IF outcome = "ok" THEN IdleCall
             ELSE [IdleCall EXCEPT !.op = "send_personal_message",
                                   !.phase = "disconnect", !.msg = msg,
                                   !.target = c]
  /\ UNCHANGED <<registry, _lock, redis_subscriptions, handlers, raised,
                 returnedDisconnect, fabric>>
  /\ UNCHANGED <<governance, engine, monitoring>>

\* The worker's "await self.disconnect(websocket)" after a failed personal
\* send or a successful close: disconnect() up to its Redis delete.
WorkerDisconnect ==
  /\ call.phase = "disconnect"
  /\ DisconnectBegin(Worker, call.target)
  /\ call' = IF raised' /\ ~raised THEN IdleCall
             ELSE IF _lock' = Free
             THEN Continue([call EXCEPT !.count =
                              IF call.op = "disconnect_by_user_and_location"
                              THEN @ + 1 ELSE @])
             ELSE [call EXCEPT !.phase = "redis_delete"]
  /\ UNCHANGED <<wsState, handlers, fabric>>
  /\ UNCHANGED <<governance, engine, monitoring>>

\* The worker's disconnect() finishes and its caller's loop goes on.
WorkerDisconnectEnd(deleted) ==
  /\ call.phase = "redis_delete"
  /\ DisconnectEnd(Worker, call.target, deleted)
  /\ call' = Continue(
       IF call.op \in Broadcasts
       THEN [call EXCEPT !.cleaned = @ \cup {call.target}]
       ELSE IF call.op = "disconnect_by_user_and_location"
       THEN [call EXCEPT !.count = @ + 1]
       ELSE call)
  /\ UNCHANGED <<wsState, handlers, fabric>>
  /\ UNCHANGED <<governance, engine, monitoring>>

\* The store drops weather:subscription:<connection_id> when the 24 hours of
\* connect()'s "ex=86400" are over.  Nothing writes the key again while the
\* connection lives.
MirrorExpires(c) ==
  /\ c \in DOMAIN redis_subscriptions
  /\ redis_subscriptions' = Restrict(redis_subscriptions,
                                     DOMAIN redis_subscriptions \ {c})
  /\ UNCHANGED <<registry, _lock, wsState, handlers, call, raised,
                 returnedDisconnect, fabric>>
  /\ UNCHANGED <<governance, engine, monitoring>>

\* ------------------------------------- farm deletion (farms/routes.py)
\* The sockets the contract of disconnect_by_user_and_location names: those
\* of the user whose coordinates lie in the bucket of (lat, lon).
DbuMatchesByBucket(info, user, pos, crop) ==
  /\ info.user_id = user
  /\ info.pos # NoPos
  /\ _get_location_key(info.pos[1], info.pos[2]) = _get_location_key(pos[1], pos[2])
  /\ crop = None \/ info.crop = crop

\* disconnect_by_user_and_location(): the test applied to each client_info.
\* The location key computed on entry is not used.
DbuMatches(info, user, pos, crop) ==
  /\ info.user_id = user
  /\ info.pos = pos
  /\ crop = None \/ info.crop = crop

\* Fault variant of AfterSelection: the closes are inside the "async with".
HeldThroughCloses(t) == t

\* The lock when task t has built to_disconnect: the "async with self._lock"
\* of disconnect_by_user_and_location ends before the loop of closes.
AfterSelection(t) == Free

\* disconnect_by_user_and_location(user_id, lat, lon, crop), as delete_farm
\* calls it, up to the first close: to_disconnect is built under the lock.
DisconnectByUserAndLocation(user, pos, crop) ==
  /\ CallerIdle
  /\ _lock = Free
  /\ _lock' = AfterSelection(Worker)
  /\ call' = Continue(
       [IdleCall EXCEPT
          !.op = "disconnect_by_user_and_location",
          !.user_id = user, !.pos = pos, !.crop = crop,
          !.location_key = _get_location_key(pos[1], pos[2]),
          !.pending = BagOf({c \in Registered :
                               DbuMatches(active_connections[c], user, pos, crop)}),
          !.expect = {c \in Registered :
                        DbuMatchesByBucket(active_connections[c], user, pos, crop)}])
  /\ UNCHANGED <<registry, wsState, redis_subscriptions, handlers, raised,
                 returnedDisconnect, fabric>>
  /\ UNCHANGED <<governance, engine, monitoring>>

\* "await websocket.close(code=1000, reason=...)" for the next socket of
\* to_disconnect (the table's insertion order).  close() on a socket that is
\* no longer open raises, and so does a close whose transport is gone: the
\* except clause then skips disconnect() and the count for this socket.
DbuClose(c, outcome) ==
  /\ call.phase = "close"
  /\ call.pending[c] > 0
  /\ \A d \in Conns : call.pending[d] > 0 => c <= d
  /\ wsState' = [wsState EXCEPT ![c] = "closed"]
  /\ call' = IF wsState[c] = "open" /\ outcome = "ok"
             THEN [call EXCEPT !.pending[c] = @ - 1, !.phase = "disconnect",
                               !.target = c]
             ELSE Continue([call EXCEPT !.pending[c] = @ - 1])
  /\ UNCHANGED <<registry, _lock, redis_subscriptions, handlers, raised,
                 returnedDisconnect, fabric>>
  /\ UNCHANGED <<governance, engine, monitoring>>

\* ------------------------------------- the pub/sub fabric (redis_pubsub.py)
\* Channel names.  A location channel carries the coordinates printed with
\* two decimals.
AlertsChannel == <<"weather:alerts">>
LocationChannel(lat, lon) == <<"weather:location:", Fmt2(lat), Fmt2(lon)>>
CropChannel(crop) == <<"weather:crop:", Lower(crop)>>
UserChannel(user) == <<"weather:alerts", user>>

\* subscribe_to_alerts(): the only channel the listener subscribes to.
ListenerChannels == {AlertsChannel}

\* n copies of message m.
RECURSIVE Copies(_, _)
Copies(m, n) == IF n = 0 THEN <<>> ELSE <<m>> \o Copies(m, n - 1)

\* Redis delivers a message to the listener once for each channel it is
\* published on that the listener is subscribed to.
Deliver(queue, chs, m) ==
  queue \o Copies(m, Cardinality(chs \cap ListenerChannels))

\* publish_alert(): the three channels it publishes the message on.
PublishAlertChannels(pos, crop) ==
  {AlertsChannel, LocationChannel(pos[1], pos[2]), CropChannel(crop)}

\* publish_alert(lat, lon, crop, alert_data)
PublishAlert(pos, crop, data) ==
  /\ Len(channel) < MaxQueue
  /\ channel' = Deliver(channel, PublishAlertChannels(pos, crop),
                        [type |-> "weather_alert", pos |-> pos, crop |-> crop,
                         data |-> data])
  /\ lastPublish' = [origin |-> "publish_alert",
                     channels |-> PublishAlertChannels(pos, crop)]
  /\ UNCHANGED listener
  /\ UNCHANGED <<registry, _lock, wsState, redis_subscriptions, handlers, call,
                 raised, returnedDisconnect>>
  /\ UNCHANGED <<governance, engine, monitoring>>

\* AlertMonitor._check_subscription() and _publish_alert() for one mirrored
\* subscription: an alert of high or critical severity is published on
\* weather:alerts:<user_id>; its coordinates are nested under "location".
MonitorPublishAlert(c, severity) ==
  /\ c \in DOMAIN redis_subscriptions
  /\ Len(channel) < MaxQueue
  /\ IF severity \in {"high", "critical"}
     THEN /\ channel' =
               Deliver(channel, {UserChannel(redis_subscriptions[c].user_id)},
                       [type |-> "weather_alert",
                        user_id |-> redis_subscriptions[c].user_id,
                        location |-> redis_subscriptions[c].pos,
                        crop |-> redis_subscriptions[c].crop,
                        risk |-> severity])
          /\ lastPublish' =
               [origin |-> "alert_monitor",
                channels |-> {UserChannel(redis_subscriptions[c].user_id)}]
     ELSE UNCHANGED <<channel, lastPublish>>
  /\ UNCHANGED listener
  /\ UNCHANGED <<registry, _lock, wsState, redis_subscriptions, handlers, call,
                 raised, returnedDisconnect>>
  /\ UNCHANGED <<governance, engine, monitoring>>

\* json.loads(message["data"]) returns: the text is JSON.
IsJson(m) == "raw" \notin DOMAIN m

\* broadcast_to_matching_clients(): 'alert_data.get("crop", "").lower()'
\* raises AttributeError when the envelope's crop is null.
CallbackRaises(alert_data) ==
  "crop" \in DOMAIN alert_data /\ alert_data.crop = None

\* Fault variant of AfterBadMessage: the exception leaves the loop.
BadMessageEndsLoop(l) == [l EXCEPT !.pc = "done", !.outcome = "raised"]

\* "except json.JSONDecodeError" and "except Exception" inside the loop: the
\* message is logged and the loop takes the next one.
AfterBadMessage(l) == [l EXCEPT !.skipped = IF @ < 2 THEN @ + 1 ELSE @]

\* _listen_for_messages(): the next message of the subscribed channel is
\* decoded and handed to the callback, broadcast_to_matching_clients, which
\* the listener awaits before it takes the next message.
\* A message whose text is not JSON is kept as [raw |-> text], and it raises
\* JSONDecodeError; any other message is kept as the object its text encodes.
ListenerDispatch ==
  /\ listener.pc = "listening"
  /\ channel # <<>>
  /\ channel' = Tail(channel)
  /\ UNCHANGED lastPublish
  /\ IF IsJson(Head(channel)) /\ ~CallbackRaises(Head(channel))
     THEN /\ BroadcastToMatchingClients(Head(channel))
          /\ UNCHANGED listener
     ELSE /\ CallerIdle
          /\ listener' = AfterBadMessage(listener)
          /\ UNCHANGED <<registry, _lock, wsState, redis_subscriptions, handlers,
                         call, raised, returnedDisconnect>>
  /\ UNCHANGED <<governance, engine, monitoring>>

\* Another client of the store publishes a text on weather:alerts.
PublishText(m) ==
  /\ Len(channel) < MaxQueue
  /\ channel' = Deliver(channel, {AlertsChannel}, m)
  /\ lastPublish' = [origin |-> "other", channels |-> {AlertsChannel}]
  /\ UNCHANGED listener
  /\ UNCHANGED <<registry, _lock, wsState, redis_subscriptions, handlers, call,
                 raised, returnedDisconnect>>
  /\ UNCHANGED <<governance, engine, monitoring>>

\* pubsub.listen() raises while the listener waits for its next message (the
\* connection to the store is lost): "except Exception as e: print(...)", and
\* the coroutine runs to its end.
TransportFails ==
  /\ listener.pc = "listening"
  /\ CallerIdle
  /\ listener' = [listener EXCEPT !.pc = "done", !.outcome = "returned"]
  /\ UNCHANGED <<channel, lastPublish>>
  /\ UNCHANGED <<registry, _lock, wsState, redis_subscriptions, handlers, call,
                 raised, returnedDisconnect>>
  /\ UNCHANGED <<governance, engine, monitoring>>

\* RedisPubSub.disconnect() at shutdown: listener_task.cancel().  The
\* CancelledError is raised where the listener is suspended, in listen() or
\* inside its callback, whose "async with" gives the lock back; "except
\* asyncio.CancelledError: raise" ends the task as cancelled.
ListenerCancelled ==
  /\ listener.pc = "listening"
  /\ listener' = [listener EXCEPT !.pc = "done", !.outcome = "cancelled"]
  /\ call' = IF call.op = "broadcast_to_matching_clients" THEN IdleCall ELSE call
  /\ _lock' = IF call.op = "broadcast_to_matching_clients" /\ _lock = Worker
              THEN Free ELSE _lock
  /\ UNCHANGED <<channel, lastPublish>>
  /\ UNCHANGED <<registry, wsState, redis_subscriptions, handlers, raised,
                 returnedDisconnect>>
  /\ UNCHANGED <<governance, engine, monitoring>>

\* broadcast_to_matching_clients(alert_data) called directly.
CallBroadcastToMatchingClients(alert_data) ==
  /\ BroadcastToMatchingClients(alert_data)
  /\ UNCHANGED fabric
  /\ UNCHANGED <<governance, engine, monitoring>>

\* ------------------ notification governance (fcm/notification_manager.py)
MAX_NOTIFICATIONS_PER_HOUR == 5
MAX_NOTIFICATIONS_PER_DAY == 20

\* Fault variant of _generate_notification_hash: the summary is left out.
HashWithoutSummary(user_id, notification_type, severity, content_summary) ==
  user_id \o ":" \o notification_type \o ":" \o severity

\* _generate_notification_hash(): the SHA-256 digest of the four values
\* joined by ":".  A digest stands for the string it was taken of.
_generate_notification_hash(user_id, notification_type, severity, content_summary) ==
  user_id \o ":" \o notification_type \o ":" \o severity \o ":" \o content_summary

\* The keys of the store.
dedup_key(args) ==
  "notif:dedup:" \o _generate_notification_hash(args[1], args[2], args[3], args[4])
hourly_key(user_id) == "notif:rate:hour:" \o user_id
daily_key(user_id) == "notif:rate:day:" \o user_id
batch_key(user_id) == "notif:batch:" \o user_id

\* "if await redis.get(key)": every stored value is a non-empty string.
Truthy(s, key) == key \in DOMAIN s

\* redis.setex(key, seconds, value): the key holds value and expires.
Setex(s, key, v) ==
  [x \in DOMAIN s \cup {key} |->
     IF x = key THEN [value |-> v, expires |-> TRUE] ELSE s[x]]

\* redis.incr(key): a key that exists keeps its expiration; a key that does
\* not exist is created with the value 1 and no expiration.
Incr(s, key) ==
  IF key \in DOMAIN s
  THEN [s EXCEPT ![key].value = @ + 1]
  ELSE [x \in DOMAIN s \cup {key} |->
          IF x = key THEN [value |-> 1, expires |-> FALSE] ELSE s[x]]

\* Fault variant of AfterGet: the read sets the key.
GetAndSet(s, key) == Setex(s, key, 1)

\* redis.get(key) leaves the store as it is.
AfterGet(s, key) == s

\* f[x] of a dict that counts, 0 for a missing key, and f with one more x.
Count(f, x) == IF x \in DOMAIN f THEN f[x] ELSE 0
Bump(f, x) == [y \in DOMAIN f \cup {x} |-> IF y = x THEN Count(f, x) + 1 ELSE f[y]]

\* The dict should_send_notification() returns.
Decision(send, reason) == [should_send |-> send, reason |-> reason]

\* Fault variant of CriticalPriority: force is ignored.
CriticalOnly(severity, force) == severity = "critical"

\* should_send_notification(): "if force or severity == 'critical'".
CriticalPriority(severity, force) == force \/ severity = "critical"

\* Fault variant of IsDuplicate: no deduplication.
NoDedupCheck(s, args) == FALSE

\* should_send_notification(): "if await redis.get(dedup_key)".
IsDuplicate(s, args) == Truthy(s, dedup_key(args))

\* Fault variant of HourlyExempt: no severity passes the hourly ceiling.
HourlyExemptNone(severity) == FALSE

\* should_send_notification(): the hourly ceiling is for 'severity != "high"'.
HourlyExempt(severity) == severity = "high"

\* "hourly_count and int(hourly_count) >= self.MAX_NOTIFICATIONS_PER_HOUR"
OverHourly(s, user_id) ==
  /\ Truthy(s, hourly_key(user_id))
  /\ s[hourly_key(user_id)].value >= MAX_NOTIFICATIONS_PER_HOUR

\* "daily_count and int(daily_count) >= self.MAX_NOTIFICATIONS_PER_DAY"
OverDaily(s, user_id) ==
  /\ Truthy(s, daily_key(user_id))
  /\ s[daily_key(user_id)].value >= MAX_NOTIFICATIONS_PER_DAY

\* The task t once its should_send_notification() has returned r: a direct
\* call is over; _send_fcm_notification() returns when told not to send and
\* goes on to the delivery otherwise.
Returns(t, r) ==
  IF t.op = "send_fcm" /\ r.should_send
  THEN [t EXCEPT !.pc = "deliver", !.check = r, !.marks = 0]
  ELSE IdleTask

\* The history of the should_send_notification() of t that returns r.
Last(t, r) == [op |-> t.op, args |-> t.args, force |-> t.force, check |-> r]

TaskIdle(p) == task[p].pc = "idle"

\* Tasks are interchangeable: a new call is given to the first idle one.
TaskFree(p) == TaskIdle(p) /\ \A q \in Tasks : q < p => ~TaskIdle(q)

\* should_send_notification() up to the return of redis.get(dedup_key), for
\* the task record t of the call; h is the history before it.
CheckDedup(p, t, h) ==
  IF CriticalPriority(t.args[3], t.force)
  THEN /\ task' = [task EXCEPT ![p] = Returns(t, Decision(TRUE, "critical_priority"))]
       /\ hist' = [h EXCEPT !.last = Last(t, Decision(TRUE, "critical_priority"))]
       /\ UNCHANGED store
  ELSE /\ IF IsDuplicate(store, t.args)
          THEN /\ task' = [task EXCEPT ![p] =
                             Returns(t, Decision(FALSE, "duplicate_recent"))]
               /\ hist' = [h EXCEPT !.last = Last(t, Decision(FALSE, "duplicate_recent"))]
          ELSE /\ task' = [task EXCEPT ![p] =
                             [t EXCEPT !.pc = "get_hourly",
                                       !.marks = Count(h.marks, t.args[1])]]
               /\ hist' = h
       /\ store' = AfterGet(store, dedup_key(t.args))

\* A direct call of should_send_notification().
ShouldSend(p, args, force) ==
  /\ TaskFree(p)
  /\ CheckDedup(p, [IdleTask EXCEPT !.op = "should_send", !.args = args,
                                    !.force = force], hist)
  /\ UNCHANGED <<hub, engine, monitoring>>

\* should_send_notification(): redis.get(hourly_key) and the hourly ceiling.
GetHourly(p) ==
  /\ task[p].pc = "get_hourly"
  /\ IF OverHourly(store, task[p].args[1]) /\ ~HourlyExempt(task[p].args[3])
     THEN /\ task' = [task EXCEPT ![p] = Returns(@, Decision(FALSE, "rate_limit_hourly"))]
          /\ hist' = [hist EXCEPT !.last =
                        Last(task[p], Decision(FALSE, "rate_limit_hourly"))]
     ELSE /\ task' = [task EXCEPT ![p].pc = "get_daily", ![p].marks = 0]
          /\ UNCHANGED hist
  /\ UNCHANGED <<store, hub, engine, monitoring>>

\* should_send_notification(): redis.get(daily_key), the daily ceiling and
\* the approval.
GetDaily(p) ==
  /\ task[p].pc = "get_daily"
  /\ LET r == IF OverDaily(store, task[p].args[1])
              THEN Decision(FALSE, "rate_limit_daily")
              ELSE Decision(TRUE, "approved")
     IN /\ task' = [task EXCEPT ![p] = Returns(@, r)]
        /\ hist' = [hist EXCEPT !.last = Last(task[p], r)]
  /\ UNCHANGED <<store, hub, engine, monitoring>>

\* mark_notification_sent() up to the return of its redis.setex(dedup_key),
\* for the task record t of the call.
MarkDedup(p, t) ==
  /\ store' = Setex(store, dedup_key(t.args), 1)
  /\ task' = [task EXCEPT ![p] = [t EXCEPT !.pc = "mark_get_hourly"]]

\* A direct call of mark_notification_sent().
MarkSent(p, args) ==
  /\ TaskFree(p)
  /\ hist.left > 0
  /\ MarkDedup(p, [IdleTask EXCEPT !.op = "mark_sent", !.args = args])
  /\ hist' = [hist EXCEPT !.marked = @ \cup {args}, !.left = @ - 1]
  /\ UNCHANGED <<hub, engine, monitoring>>

\* mark_notification_sent(): "if not await redis.get(hourly_key)".
MarkGetHourly(p) ==
  /\ task[p].pc = "mark_get_hourly"
  /\ task' = [task EXCEPT ![p].found = Truthy(store, hourly_key(task[p].args[1])),
                          ![p].pc = "mark_set_hourly"]
  /\ UNCHANGED <<store, hist, hub, engine, monitoring>>

\* mark_notification_sent(): redis.setex(hourly_key, 3600, "1"), or
\* redis.incr(hourly_key) when the key was found.
MarkSetHourly(p) ==
  /\ task[p].pc = "mark_set_hourly"
  /\ store' = IF task[p].found
              THEN Incr(store, hourly_key(task[p].args[1]))
              ELSE Setex(store, hourly_key(task[p].args[1]), 1)
  /\ task' = [task EXCEPT ![p].pc = "mark_get_daily", ![p].found = FALSE]
  /\ UNCHANGED <<hist, hub, engine, monitoring>>

\* mark_notification_sent(): "if not await redis.get(daily_key)".
MarkGetDaily(p) ==
  /\ task[p].pc = "mark_get_daily"
  /\ task' = [task EXCEPT ![p].found = Truthy(store, daily_key(task[p].args[1])),
                          ![p].pc = "mark_set_daily"]
  /\ UNCHANGED <<store, hist, hub, engine, monitoring>>

\* mark_notification_sent(): redis.setex(daily_key, 86400, "1"), or
\* redis.incr(daily_key) when the key was found; the call returns, and with
\* it the _send_fcm_notification() that made it.
MarkSetDaily(p) ==
  /\ task[p].pc = "mark_set_daily"
  /\ store' = IF task[p].found
              THEN Incr(store, daily_key(task[p].args[1]))
              ELSE Setex(store, daily_key(task[p].args[1]), 1)
  /\ task' = [task EXCEPT ![p] = IdleTask]
  /\ hist' = [hist EXCEPT !.marks = Bump(@, task[p].args[1])]
  /\ UNCHANGED <<hub, engine, monitoring>>

\* The store drops a key whose time to live is over.  Time has passed: the
\* window of the history starts again, with the markers that are still set.
Expire(key) ==
  /\ key \in DOMAIN store
  /\ store[key].expires
  /\ store' = Restrict(store, DOMAIN store \ {key})
  /\ hist' = [hist EXCEPT !.marks = <<>>, !.delivered = <<>>,
                          !.marked = {a \in @ : dedup_key(a) # key}]
  /\ UNCHANGED <<task, hub, engine, monitoring>>

\* ------------------------- the monitor's push pipeline (alert_monitor.py)
\* "content_summary = f'{crop}:{risk['severity']}:{risk['risk'][:50]}'"; the
\* rule names of the model are shorter than 50 characters.
ContentSummary(crop, risk) == crop \o ":" \o risk.severity \o ":" \o risk.risk

\* should_batch_notification()
should_batch_notification(severity, notification_type) ==
  /\ severity # "critical"
  /\ notification_type # "action"
  /\ severity \in {"low", "medium"} /\ notification_type = "weather"

\* add_to_batch(): redis.rpush(batch_key) and redis.expire(batch_key); the
\* value kept is the length of the queue.
AddToBatch(s, user_id) ==
  [x \in DOMAIN s \cup {batch_key(user_id)} |->
     IF x = batch_key(user_id)
     THEN [value |-> IF x \in DOMAIN s THEN s[x].value + 1 ELSE 1, expires |-> TRUE]
     ELSE s[x]]

\* Fault variant of Delivered: the outcome of the push is not looked at.
DeliveredAlways(sent) == TRUE

\* _send_fcm_notification(): "if result.get('success')".
Delivered(sent) == sent = "ok"

\* _send_fcm_notification() up to the return of the first redis.get() of its
\* should_send_notification(): the user row is read, and a user without a
\* token ends the call.  _publish_alert() is its one caller and passes
\* notification_type "weather".
StartPush(p, user_id, crop, risk, fcm_token) ==
  /\ TaskFree(p)
  /\ hist.left > 0
  /\ LET t == [IdleTask EXCEPT
                 !.op = "send_fcm",
                 !.args = <<user_id, "weather", risk.severity, ContentSummary(crop, risk)>>,
                 !.force = (risk.severity = "critical")]
         h == [hist EXCEPT !.left = @ - 1]
     IN IF fcm_token
        THEN CheckDedup(p, t, h)
        ELSE /\ hist' = h
             /\ UNCHANGED <<task, store>>

\* _send_fcm_notification() called on its own.
SendFcmNotification(p, user_id, crop, risk, fcm_token) ==
  /\ StartPush(p, user_id, crop, risk, fcm_token)
  /\ UNCHANGED <<hub, engine, monitoring>>

\* _send_fcm_notification(): the batch queue for what should_batch names,
\* else FCMService.send_notification() and its outcome.
PushDeliver(p, sent) ==
  /\ task[p].pc = "deliver"
  /\ IF /\ should_batch_notification(task[p].args[3], "weather")
        /\ task[p].args[3] \notin {"critical", "high"}
     THEN /\ store' = AddToBatch(store, task[p].args[1])
          /\ task' = [task EXCEPT ![p] = IdleTask]
          /\ UNCHANGED hist
     ELSE /\ task' = [task EXCEPT ![p] =
                        IF Delivered(sent)
                        THEN [@ EXCEPT !.sent = sent, !.pc = "log"]
                        ELSE IdleTask]
          /\ hist' = IF sent = "ok"
                     THEN [hist EXCEPT !.delivered = Bump(@, task[p].args)]
                     ELSE hist
          /\ UNCHANGED store
  /\ UNCHANGED <<hub, engine, monitoring>>

\* _send_fcm_notification() after the push: the row in notification_logs,
\* then mark_notification_sent() up to its redis.setex(dedup_key).  A
\* database error is caught by the function's except clause and ends it.
LogAndMark(p, logged) ==
  /\ task[p].pc = "log"
  /\ IF logged
     THEN /\ MarkDedup(p, task[p])
          /\ hist' = [hist EXCEPT !.marked = @ \cup {task[p].args}]
     ELSE /\ task' = [task EXCEPT ![p] = IdleTask]
          /\ UNCHANGED <<store, hist>>
  /\ UNCHANGED <<hub, engine, monitoring>>

\* ------------------------------------------------------------ the rule engine
\* JSON values of the rule file: a string is the sequence of its characters,
\* a list the sequence of its numbers. Numbers are integers here; the
\* thresholds and observations of the specifications below are whole numbers.
Str(chars) == [type |-> "str", value |-> chars]
List(items) == [type |-> "list", value |-> items]
Num(n) == [type |-> "num", value |-> n]

\* dict.get(key, default)
Get(d, k, default) == IF k \in DOMAIN d THEN d[k] ELSE default

\* A load_rules() without the fallback to the generic rules.
LoadWithoutFallback(cr) == IF cr \in DOMAIN all_rules THEN all_rules[cr] ELSE <<>>

\* load_rules(crop): the crop's rules, else the generic rules, else none.
load_rules(cr) ==
  IF cr \in DOMAIN all_rules THEN all_rules[cr] ELSE Get(all_rules, "generic", <<>>)

DigitValue ==
  ("0" :> 0) @@ ("1" :> 1) @@ ("2" :> 2) @@ ("3" :> 3) @@ ("4" :> 4) @@
  ("5" :> 5) @@ ("6" :> 6) @@ ("7" :> 7) @@ ("8" :> 8) @@ ("9" :> 9)

RECURSIVE Decimal(_)
Decimal(chars) ==
  IF chars = <<>> THEN 0
  ELSE 10 * Decimal(SubSeq(chars, 1, Len(chars) - 1)) + DigitValue[chars[Len(chars)]]

IsDecimal(chars) ==
  /\ chars # <<>>
  /\ \A i \in 1..Len(chars) : chars[i] \in DOMAIN DigitValue

\* _to_float(val): float(val), and 0.0 when float() raises.
_to_float(val) ==
  IF IsDecimal(val) THEN Decimal(val)
  ELSE IF val # <<>> /\ val[1] = "-" /\ IsDecimal(Tail(val)) THEN 0 - Decimal(Tail(val))
  ELSE 0

\* str.startswith(prefix) and the slice s[n:]
StartsWith(s, prefix) ==
  /\ Len(s) >= Len(prefix)
  /\ SubSeq(s, 1, Len(prefix)) = prefix
From(s, n) == SubSeq(s, n + 1, Len(s))

\* The tests of lines 49-59 with > and < tried before >= and <=.
MatchesStrictFirst(v, condition) ==
  IF StartsWith(condition, <<">">>) THEN v > _to_float(From(condition, 1))
  ELSE IF StartsWith(condition, <<"<">>) THEN v < _to_float(From(condition, 1))
  ELSE FALSE

_matches_simple_operator(v, condition) ==
  IF StartsWith(condition, <<">", "=">>) THEN v >= _to_float(From(condition, 2))
  ELSE IF StartsWith(condition, <<"<", "=">>) THEN v <= _to_float(From(condition, 2))
  ELSE IF StartsWith(condition, <<">">>) THEN v > _to_float(From(condition, 1))
  ELSE IF StartsWith(condition, <<"<">>) THEN v < _to_float(From(condition, 1))
  ELSE FALSE

_matches_range(v, range_list) ==
  IF range_list.type # "list" \/ Len(range_list.value) # 2 THEN FALSE
  ELSE range_list.value[1] <= v /\ v <= range_list.value[2]

\* One condition of evaluate_conditions(): a range, an operator string, or
\* an exact match, which compares weather.get(key), None for a missing key.
ConditionHolds(w, k, cond) ==
  IF cond.type = "list" THEN _matches_range(Get(w, k, 0), cond)
  ELSE IF cond.type = "str"
          /\ (StartsWith(cond.value, <<">">>) \/ StartsWith(cond.value, <<"<">>))
  THEN _matches_simple_operator(Get(w, k, 0), cond.value)
  ELSE k \in DOMAIN w /\ cond.type = "num" /\ w[k] = cond.value

evaluate_conditions(w, conds) ==
  \A k \in DOMAIN conds : ConditionHolds(w, k, conds[k])

SEVERITY_PRIORITY ==
  ("low" :> 1) @@ ("medium" :> 2) @@ ("high" :> 3) @@ ("critical" :> 4)

\* The comparison of line 138 with >= for >: the last rule of a tier wins.
AtLeast(sev_value, best_severity_value) == sev_value >= best_severity_value

\* Line 138: a matching rule replaces the best one only if strictly higher.
Higher(sev_value, best_severity_value) == sev_value > best_severity_value

\* A default verdict that is not the no-risk verdict.
DefaultOfUnknown ==
  [risk |-> "unknown", severity |-> "medium", message |-> "", advice |-> ""]

\* Lines 151-156.
DefaultVerdict ==
  [risk |-> "none",
   severity |-> "low",
   message |-> "Weather conditions are favorable. No immediate risks detected for your crops.",
   advice |-> "Continue regular monitoring and maintenance routines."]

\* best_rule of line 140 for the rule named rule_name.
BestRule(rule_name, rule_def) ==
  [risk |-> rule_name,
   severity |-> Get(rule_def, "severity", "low"),
   message |-> Get(rule_def, "message", ""),
   advice |-> Get(rule_def, "advice", "")]

\* The loop of lines 129-145 from rule i on; best is <<best_rule,
\* best_severity_value>>, best_rule being NoVerdict for None.
RECURSIVE RulesLoop(_, _, _, _)
RulesLoop(w, rules, i, best) ==
  IF i > Len(rules) THEN best
  ELSE LET rule_def == rules[i].def
           sev_value == Get(SEVERITY_PRIORITY, Get(rule_def, "severity", "low"), 1)
       IN IF /\ evaluate_conditions(w, Get(rule_def, "conditions", <<>>))
             /\ Higher(sev_value, best[2])
          THEN RulesLoop(w, rules, i + 1, <<BestRule(rules[i].name, rule_def), sev_value>>)
          ELSE RulesLoop(w, rules, i + 1, best)

apply_rules(w, cr) ==
  LET best == RulesLoop(w, load_rules(cr), 1, <<NoVerdict, 0>>)
  IN IF best[1] # NoVerdict THEN best[1] ELSE DefaultVerdict

\* get_weather_data() of an evaluation request returns the observation w.
GetWeatherData(w) ==
  /\ weather' = w
  /\ crop_asked' = ""
  /\ verdict' = NoVerdict
  /\ UNCHANGED <<all_rules, hub, governance, monitoring>>

\* apply_rules(weather, crop) on the observation fetched.
ApplyRules(cr) ==
  /\ DOMAIN weather # {}
  /\ crop_asked' = cr
  /\ verdict' = apply_rules(weather, cr)
  /\ UNCHANGED <<all_rules, weather, hub, governance, monitoring>>

\* ------------------------------------- the alert monitor (alert_monitor.py)
check_interval == 300
backoff == 60

\* The _monitor_loop() tasks created so far.
Created == Cardinality({i \in LoopIds : loops[i].pc # "none"})

\* A start() without "if self.running: return".
StartAlways ==
  /\ monitor.call = "idle"
  /\ monitor.calls < MaxCalls
  /\ Created < MaxLoops
  /\ monitor' = [monitor EXCEPT !.running = TRUE, !._task = Created + 1,
                                !.calls = @ + 1]
  /\ loops' = [loops EXCEPT ![Created + 1].pc = "created"]
  /\ UNCHANGED <<hub, governance, engine>>

\* start(): nothing when running, else running is set and a task created.
Start ==
  /\ monitor.call = "idle"
  /\ monitor.calls < MaxCalls
  /\ IF monitor.running
     THEN /\ monitor' = [monitor EXCEPT !.calls = @ + 1]
          /\ UNCHANGED loops
     ELSE /\ Created < MaxLoops
          /\ monitor' = [monitor EXCEPT !.running = TRUE, !._task = Created + 1,
                                        !.calls = @ + 1]
          /\ loops' = [loops EXCEPT ![Created + 1].pc = "created"]
  /\ UNCHANGED <<hub, governance, engine>>

\* stop() up to "await self._task": running is cleared and the task, if
\* there is one, is cancelled; cancel() of a finished task does nothing.
Stop ==
  /\ monitor.call = "idle"
  /\ monitor.calls < MaxCalls
  /\ IF monitor._task # 0
     THEN /\ monitor' = [monitor EXCEPT !.running = FALSE, !.call = "stop",
                                        !.calls = @ + 1]
          /\ loops' = [loops EXCEPT ![monitor._task].cancel =
                         loops[monitor._task].pc # "done"]
     ELSE /\ monitor' = [monitor EXCEPT !.running = FALSE, !.calls = @ + 1]
          /\ UNCHANGED loops
  /\ UNCHANGED <<hub, governance, engine>>

\* stop(): "await self._task" returns, or raises the CancelledError that
\* stop() swallows, when the task has ended.
StopReturns ==
  /\ monitor.call = "stop"
  /\ loops[monitor._task].pc = "done"
  /\ monitor' = [monitor EXCEPT !.call = "idle"]
  /\ UNCHANGED <<loops, hub, governance, engine>>

\* The task inside the push pipeline of loop record l, if any.
InPipeline(l) == {p \in Tasks : l.pc = "pipeline" /\ ~TaskIdle(p)}

\* A cancellation that the task does not notice.
CancelIgnored(i) ==
  /\ loops[i].cancel
  /\ loops[i].pc \notin {"none", "done"}
  /\ loops' = [loops EXCEPT ![i].cancel = FALSE]
  /\ UNCHANGED <<monitor, hub, governance, engine>>

\* task.cancel() takes effect: CancelledError is raised at the await the
\* task is suspended in.  No "except Exception" on the way catches it;
\* "except asyncio.CancelledError: break" ends the loop.
Cancelled(i) ==
  /\ loops[i].cancel
  /\ loops[i].pc \notin {"none", "done"}
  /\ loops' = [loops EXCEPT
                 ![i].pc = "done", ![i].cancel = FALSE,
                 ![i].cut = IF InPipeline(loops[i]) # {}
                            THEN task[CHOOSE p \in InPipeline(loops[i]) : TRUE].pc
                            ELSE loops[i].pc]
  /\ task' = IF loops[i].pc = "pipeline" THEN [p \in Tasks |-> IdleTask] ELSE task
  /\ UNCHANGED <<monitor, store, hist, hub, engine>>

\* _check_all_subscriptions() catches every Exception (lines 97-98), as
\* _get_active_subscriptions() does (lines 126-127): whether the enumeration
\* failed or not, nothing is raised to _monitor_loop().
TickRaises(enum_failed) == FALSE

\* _monitor_loop() after _check_all_subscriptions(): sleep(check_interval),
\* or sleep(60) in "except Exception".
Sleeps(l) ==
  [l EXCEPT !.pc = "sleep", !.todo = <<>>,
            !.wait = IF TickRaises(l.enum_failed) THEN backoff ELSE check_interval]

\* The check of the first subscription of todo is over: the next one
\* starts with its get_weather_data(), or the tick ends.
NextSubscription(l) ==
  IF Len(l.todo) > 1 THEN [l EXCEPT !.todo = Tail(@), !.pc = "fetch"] ELSE Sleeps(l)

\* An exception of _check_subscription() that ends the tick.
ErrorEndsTick(l) == Sleeps(l)

\* "except Exception" of lines 94-95: the error is printed and the for loop
\* goes on.
AfterError(l) == NextSubscription(l)

\* "while self.running" when the task starts and after each sleep; the
\* tick starts with _get_active_subscriptions().
WakeUp(i) ==
  /\ loops[i].pc \in {"created", "sleep"}
  /\ ~loops[i].cancel
  /\ loops' = [loops EXCEPT ![i] =
                 IF monitor.running
                 THEN [@ EXCEPT !.pc = "enumerate", !.subs = <<>>, !.todo = <<>>,
                                !.wait = 0, !.enum_failed = FALSE, !.failed = {}]
                 ELSE [@ EXCEPT !.pc = "done"]]
  /\ UNCHANGED <<monitor, hub, governance, engine>>

\* redis_client.keys("weather:subscription:*") as a list.
RECURSIVE KeysFrom(_)
KeysFrom(c) ==
  IF c > NumConns THEN <<>>
  ELSE (IF c \in DOMAIN redis_subscriptions THEN <<c>> ELSE <<>>) \o KeysFrom(c + 1)

\* _get_active_subscriptions(): the first n keys are read; with enum_failed
\* redis raised after them, and the entries read so far are returned.  An
\* empty dict ends the tick.
Enumerate(i, n, enum_failed) ==
  /\ loops[i].pc = "enumerate"
  /\ ~loops[i].cancel
  /\ n \in 0..Len(KeysFrom(1))
  /\ enum_failed <=> n < Len(KeysFrom(1))
  /\ loops' = [loops EXCEPT ![i] =
                 LET l == [@ EXCEPT !.subs = SubSeq(KeysFrom(1), 1, n),
                                    !.todo = SubSeq(KeysFrom(1), 1, n),
                                    !.enum_failed = enum_failed]
                 IN IF n = 0 THEN Sleeps(l) ELSE [l EXCEPT !.pc = "fetch"]]
  /\ UNCHANGED <<monitor, hub, governance, engine>>

\* A fault variant of Alerts: every verdict but a low one alerts.
AlertsFromMedium(severity) == severity \in {"medium", "high", "critical"}

\* "if risk['severity'] in ['high', 'critical']"
Alerts(severity) == severity \in {"high", "critical"}

\* _check_subscription(): get_weather_data() returns w or raises; the
\* verdict of apply_rules() either starts _publish_alert() with its
\* redis_client.publish(), or ends the check.
CheckSubscription(i, w, fetched) ==
  /\ loops[i].pc = "fetch"
  /\ ~loops[i].cancel
  /\ LET c == Head(loops[i].todo)
         sub == redis_subscriptions[c]
     IN IF fetched
        THEN /\ weather' = w
             /\ crop_asked' = sub.crop
             /\ verdict' = apply_rules(w, sub.crop)
             /\ loops' = [loops EXCEPT ![i] =
                            IF Alerts(apply_rules(w, sub.crop).severity)
                            THEN [@ EXCEPT !.pc = "publish"]
                            ELSE NextSubscription(@)]
             /\ UNCHANGED all_rules
        ELSE /\ loops' = [loops EXCEPT ![i] =
                            AfterError([@ EXCEPT !.failed = @ \cup {c}])]
             /\ UNCHANGED engine
  /\ UNCHANGED <<monitor, hub, governance>>

\* _publish_alert(): the publish on weather:alerts:<user_id> succeeds or
\* raises, which is caught; then _send_fcm_notification() reads the user row.
MonitorPublish(i, published) ==
  /\ loops[i].pc = "publish"
  /\ ~loops[i].cancel
  /\ LET sub == redis_subscriptions[Head(loops[i].todo)]
     IN IF published
        THEN /\ channel' =
                  Deliver(channel, {UserChannel(sub.user_id)},
                          [type |-> "weather_alert", user_id |-> sub.user_id,
                           location |-> sub.pos, crop |-> sub.crop,
                           risk |-> verdict.severity])
             /\ lastPublish' = [origin |-> "alert_monitor",
                                channels |-> {UserChannel(sub.user_id)}]
        ELSE UNCHANGED <<channel, lastPublish>>
  /\ UNCHANGED listener
  /\ loops' = [loops EXCEPT ![i].pc = "token"]
  /\ UNCHANGED <<registry, _lock, wsState, redis_subscriptions, handlers, call,
                 raised, returnedDisconnect>>
  /\ UNCHANGED <<monitor, governance, engine>>

\* _send_fcm_notification() of the loop, up to its first redis.get().
MonitorPush(i, fcm_token) ==
  /\ loops[i].pc = "token"
  /\ ~loops[i].cancel
  /\ LET sub == redis_subscriptions[Head(loops[i].todo)]
     IN \E p \in Tasks : StartPush(p, sub.user_id, sub.crop, verdict, fcm_token)
  /\ loops' = [loops EXCEPT ![i].pc = "pipeline"]
  /\ UNCHANGED <<monitor, hub, engine>>

\* _send_fcm_notification() has returned to _check_subscription().
PushReturns(i) ==
  /\ loops[i].pc = "pipeline"
  /\ ~loops[i].cancel
  /\ \A p \in Tasks : TaskIdle(p)
  /\ loops' = [loops EXCEPT ![i] = NextSubscription(@)]
  /\ UNCHANGED <<monitor, hub, governance, engine>>

\* ----------------------------------------------------------- specifications
\* The envelopes a caller can hand to broadcast_to_matching_clients: with and
\* without coordinates, with the payload under "data" or as the envelope.
Envelopes(coords, crops) ==
  [type : {"weather_alert"}, pos : coords, crop : crops, data : Payloads]
  \cup [type : {"weather_alert"}, pos : coords, crop : crops]
  \cup [type : {"weather_alert"}, crop : crops, data : Payloads]

\* The steps of the endpoint handlers.
HandlerStep(users, coords, crops, outcomes, deletes) ==
  \E c \in Conns :
    \/ \E user \in users, pos \in coords, crop \in crops, accepted \in BOOLEAN :
         Connect(c, user, pos, crop, accepted)
    \/ \E outcome \in outcomes : ConnectEnd(c, outcome)
    \/ \E clientLeft \in BOOLEAN : HandlerExit(c, clientLeft)
    \/ \E deleted \in deletes : HandlerDone(c, deleted)

\* The steps inside a broadcast, whoever started it.
BroadcastStep(outcomes, deletes) ==
  \/ \E c \in Conns, outcome \in outcomes : Send(c, outcome)
  \/ \E c \in Conns : Cleanup(c)
  \/ \E deleted \in deletes : WorkerDisconnectEnd(deleted)

\* The registry under its handlers and the direct calls of its operations.
\* The key-value store answers every request.
SpecUsers == {"u1"}
SpecCoords == {<<37420, -122080>>, <<37480, -122080>>}
SpecCrops == {"Potato", "rice"}

Next ==
  \/ HandlerStep(SpecUsers, SpecCoords, SpecCrops, {"ok", "confirm_error"}, {TRUE})
  \/ BroadcastStep({"ok", "peer_gone", "error"}, {TRUE})
  \/ \E pos \in SpecCoords, msg \in Payloads : BroadcastToLocation(pos, msg)
  \/ \E crop \in SpecCrops, msg \in Payloads : BroadcastToCrop(crop, msg)
  \/ \E msg \in Payloads : BroadcastToAll(msg)
  \/ \E e \in Envelopes(SpecCoords, SpecCrops) : CallBroadcastToMatchingClients(e)
  \/ \E c \in Conns, msg \in Payloads, outcome \in {"ok", "peer_gone", "error"} :
       SendPersonalMessage(c, msg, outcome)
  \/ WorkerDisconnect

Spec == Init /\ [][Next]_vars

\* The subscription operations against the handlers and a caller of
\* send_personal_message, whose failures end in disconnect().
IndexUsers == {"u1"}
IndexCoords == {<<37420, -122080>>, <<37480, -122080>>}
IndexCrops == {"Potato", "rice"}

NextIndex ==
  \/ HandlerStep(IndexUsers, IndexCoords, IndexCrops, {"ok"}, {TRUE})
  \/ \E c \in Conns, pos \in IndexCoords : SubscribeLocation(c, pos)
  \/ \E c \in Conns, crop \in IndexCrops : SubscribeCrop(c, crop)
  \/ \E c \in Conns, pos \in IndexCoords : UnsubscribeLocation(c, pos)
  \/ \E c \in Conns, crop \in IndexCrops : UnsubscribeCrop(c, crop)
  \/ \E c \in Conns, msg \in Payloads, outcome \in {"ok", "error"} :
       SendPersonalMessage(c, msg, outcome)
  \/ WorkerDisconnect
  \/ \E deleted \in {TRUE} : WorkerDisconnectEnd(deleted)

SpecIndex == Init /\ [][NextIndex]_vars

\* Farm deletion against the handlers.  Two farms of the model lie in one
\* 0.1-degree bucket; the store may fail.
FarmUsers == {"u1", "u2"}
FarmCoords == {<<37420, -122080>>, <<37421, -122079>>}
FarmCrops == {"potato", "rice"}

NextFarm ==
  \/ HandlerStep(FarmUsers, FarmCoords, FarmCrops, {"ok", "redis_error"}, BOOLEAN)
  \/ \E user \in FarmUsers, pos \in FarmCoords, crop \in FarmCrops \cup {None} :
       DisconnectByUserAndLocation(user, pos, crop)
  \/ \E c \in Conns, outcome \in {"ok", "peer_gone"} : DbuClose(c, outcome)
  \/ WorkerDisconnect
  \/ \E deleted \in BOOLEAN : WorkerDisconnectEnd(deleted)

SpecFarm == Init /\ [][NextFarm]_vars

\* The fabric: publishers, the listener and its broadcasts, the handlers.
\* Clients connect in one bucket; alerts are published for that bucket and
\* for its neighbour, for the clients' crop in another letter case and for
\* another crop.
FabricUsers == {"u1"}
FabricCoords == {<<37420, -122080>>, <<37421, -122079>>}
FabricCrops == {"potato", "Potato"}
PublishCoords == {<<37421, -122079>>, <<37480, -122080>>}
PublishCrops == {"Potato", "rice"}

NextFabric ==
  \/ HandlerStep(FabricUsers, FabricCoords, FabricCrops, {"ok"}, {TRUE})
  \/ BroadcastStep({"ok", "peer_gone", "error"}, {TRUE})
  \/ \E pos \in PublishCoords, crop \in PublishCrops, data \in Payloads :
       PublishAlert(pos, crop, data)
  \/ \E c \in Conns, severity \in {"low", "high"} : MonitorPublishAlert(c, severity)
  \/ ListenerDispatch

SpecFabric == Init /\ [][NextFabric]_vars

\* The registry lock under every operation that takes it or calls
\* disconnect(): the handlers, the broadcasts with their clean-up,
\* send_personal_message and disconnect_by_user_and_location.  asyncio.Lock
\* wakes its waiters in the order of their arrival, and the store answers
\* the delete of a disconnect(): a task that waits for the lock gets it, and
\* a task inside disconnect() leaves it.
LockCoords == {<<37420, -122080>>}
LockCrops == {"potato"}

NextLock ==
  \/ HandlerStep({"u1"}, LockCoords, LockCrops, {"ok"}, {TRUE})
  \/ BroadcastStep({"ok", "error"}, {TRUE})
  \/ \E pos \in LockCoords, msg \in Payloads : BroadcastToLocation(pos, msg)
  \/ \E msg \in Payloads : BroadcastToAll(msg)
  \/ \E c \in Conns, msg \in Payloads, outcome \in {"ok", "error"} :
       SendPersonalMessage(c, msg, outcome)
  \/ WorkerDisconnect
  \/ \E pos \in LockCoords : DisconnectByUserAndLocation("u1", pos, None)
  \/ \E c \in Conns : DbuClose(c, "ok")

SpecLock ==
  /\ Init /\ [][NextLock]_vars
  /\ WF_pc(\E c \in Conns : HandlerDone(c, TRUE))
  /\ WF_call(WorkerDisconnectEnd(TRUE))
  /\ SF_call(WorkerDisconnect)
  /\ SF_call(\E c \in Conns : Cleanup(c))

\* The mirror entries over the life of the connections: handlers that stay
\* in their receive loop for any length of time, broadcasts to them, and the
\* store's expiry of the entries.
MirrorCoords == {<<37420, -122080>>, <<37480, -122080>>}
MirrorCrops == {"Potato", "rice"}

NextMirror ==
  \/ HandlerStep({"u1"}, MirrorCoords, MirrorCrops, {"ok"}, {TRUE})
  \/ BroadcastStep({"ok", "error"}, {TRUE})
  \/ \E msg \in Payloads : BroadcastToAll(msg)
  \/ \E c \in Conns : MirrorExpires(c)

SpecMirror == Init /\ [][NextMirror]_vars

\* The listener under the texts any client of the store can publish on its
\* channel: an alert envelope for the clients' bucket, a text that is not
\* JSON, and an envelope whose crop is null; the store's connection can fail
\* and the application can shut down.
ListenerCoords == {<<37420, -122080>>}
ListenerCrops == {"Potato"}
ListenerTexts ==
  [type : {"weather_alert"}, pos : ListenerCoords, crop : ListenerCrops,
   data : Payloads]
  \cup [type : {"weather_alert"}, pos : ListenerCoords, crop : {None},
        data : Payloads]
  \cup {[raw |-> "not json"]}

NextListener ==
  \/ HandlerStep({"u1"}, ListenerCoords, ListenerCrops, {"ok"}, {TRUE})
  \/ BroadcastStep({"ok", "error"}, {TRUE})
  \/ \E m \in ListenerTexts : PublishText(m)
  \/ ListenerDispatch
  \/ TransportFails
  \/ ListenerCancelled

SpecListener == Init /\ [][NextListener]_vars

\* The steps inside the two operations, whoever called them.
GovernanceStep ==
  \E p \in Tasks :
    \/ GetHourly(p)
    \/ GetDaily(p)
    \/ MarkGetHourly(p)
    \/ MarkSetHourly(p)
    \/ MarkGetDaily(p)
    \/ MarkSetDaily(p)

\* The governance layer under direct calls of its two operations by
\* concurrent tasks.  The store is shared and outlives the process: it is
\* empty, or holds the counters of a user who is at the hourly ceiling, or
\* one notification below both ceilings.  The requests differ from the
\* first in one field each.
GovRequests ==
  {<<"u1", "weather", "medium", "rice:medium:blight">>,
   <<"u2", "weather", "medium", "rice:medium:blight">>,
   <<"u1", "disease", "medium", "rice:medium:blight">>,
   <<"u1", "weather", "high", "rice:medium:blight">>,
   <<"u1", "weather", "medium", "rice:medium:frost">>,
   <<"u1", "weather", "critical", "rice:medium:blight">>}

MarkRequests ==
  {<<"u1", "weather", "medium", "rice:medium:blight">>,
   <<"u1", "weather", "high", "rice:medium:blight">>}

Counters(user_id, hourly, daily) ==
  Setex(Setex(<<>>, hourly_key(user_id), hourly), daily_key(user_id), daily)

GovStores ==
  {<<>>,
   Counters("u1", MAX_NOTIFICATIONS_PER_HOUR, MAX_NOTIFICATIONS_PER_HOUR),
   Counters("u1", MAX_NOTIFICATIONS_PER_HOUR - 1, MAX_NOTIFICATIONS_PER_DAY - 1)}

InitGov ==
  /\ HubInit
  /\ EngineIdle
  /\ store \in GovStores
  /\ task = [p \in Tasks |-> IdleTask]
  /\ hist = [NoHist EXCEPT !.left = GovMarks]
  /\ MonitorIdle

NextGov ==
  \/ \E p \in Tasks, args \in GovRequests, force \in BOOLEAN : ShouldSend(p, args, force)
  \/ \E p \in Tasks, args \in MarkRequests : MarkSent(p, args)
  \/ GovernanceStep
  \/ \E key \in DOMAIN store : Expire(key)

SpecGov == InitGov /\ [][NextGov]_vars

\* The counters of one user under concurrent calls of
\* mark_notification_sent() for one notification, and the checks of another.
RaceMarks == {<<"u1", "weather", "medium", "rice:medium:blight">>}
RaceChecks == {<<"u1", "weather", "medium", "rice:medium:frost">>}

InitRace ==
  /\ HubInit
  /\ EngineIdle
  /\ store = <<>>
  /\ task = [p \in Tasks |-> IdleTask]
  /\ hist = [NoHist EXCEPT !.left = MaxMarks]
  /\ MonitorIdle

NextRace ==
  \/ \E p \in Tasks, args \in RaceChecks : ShouldSend(p, args, FALSE)
  \/ \E p \in Tasks, args \in RaceMarks : MarkSent(p, args)
  \/ GovernanceStep
  \/ \E key \in DOMAIN store : Expire(key)

SpecRace == InitRace /\ [][NextRace]_vars

\* The counters within one window: the calls of SpecRace with no key of the
\* store expiring.
NextWindow ==
  \/ \E p \in Tasks, args \in RaceChecks : ShouldSend(p, args, FALSE)
  \/ \E p \in Tasks, args \in RaceMarks : MarkSent(p, args)
  \/ GovernanceStep

SpecWindow == InitRace /\ [][NextWindow]_vars

\* The push pipeline under the monitors of two server instances.
PushUsers == {"u1"}
PushCrops == {"rice"}
PushRisks == {[risk |-> "blight", severity |-> "high"],
              [risk |-> "frost", severity |-> "critical"]}

InitPush ==
  /\ HubInit
  /\ EngineIdle
  /\ store \in GovStores
  /\ task = [p \in Tasks |-> IdleTask]
  /\ hist = [NoHist EXCEPT !.left = PushCalls]
  /\ MonitorIdle

NextPush ==
  \/ \E p \in Tasks, user_id \in PushUsers, crop \in PushCrops, risk \in PushRisks,
        fcm_token \in BOOLEAN : SendFcmNotification(p, user_id, crop, risk, fcm_token)
  \/ \E p \in Tasks, sent \in {"ok", "failed"} : PushDeliver(p, sent)
  \/ \E p \in Tasks, logged \in BOOLEAN : LogAndMark(p, logged)
  \/ GovernanceStep
  \/ \E key \in DOMAIN store : Expire(key)

SpecPush == InitPush /\ [][NextPush]_vars

\* The rule engine over rule files and observations.
Rule(rule_name, rule_def) == [name |-> rule_name, def |-> rule_def]

\* The rules of the files: "fungal" is a range and an operator, "heat" shares
\* its tier, "mild" has neither conditions nor severity, "odd" a severity
\* outside the four tiers, "wet" an exact match.
RulePool ==
  { Rule("fungal", [conditions |-> [humidity |-> Str(<<">", "=", "8", "5">>),
                                    temperature |-> List(<<15, 22>>)],
                    severity |-> "high", message |-> "m1", advice |-> "a1"]),
    Rule("heat", [conditions |-> [temperature |-> Str(<<">", "1", "7">>)],
                  severity |-> "high", message |-> "m2", advice |-> "a2"]),
    Rule("damp", [conditions |-> [humidity |-> Str(<<">", "8", "0">>)],
                  severity |-> "medium", message |-> "m3", advice |-> "a3"]),
    Rule("storm", [conditions |-> [humidity |-> Str(<<"<", "=", "3", "0">>),
                                   temperature |-> Str(<<"<", "1", "5">>)],
                   severity |-> "critical", message |-> "m4", advice |-> "a4"]),
    Rule("mild", [message |-> "m5"]),
    Rule("odd", [conditions |-> [humidity |-> Str(<<">", "8", "0">>)],
                 severity |-> "extreme", message |-> "m6", advice |-> "a6"]),
    Rule("wet", [conditions |-> [consecutive_rain_days |-> Num(2)],
                 severity |-> "low", message |-> "m7", advice |-> "a7"]) }

\* A crop's rules in the order of the file, at most MaxRules of them.
RuleSets ==
  { rs \in UNION { [1..n -> RulePool] : n \in 0..MaxRules } :
      \A i, j \in 1..Len(rs) : i # j => rs[i].name # rs[j].name }

GenericRules == { <<>>, <<Rule("damp", [conditions |-> [humidity |-> Str(<<">", "8", "0">>)],
                                        severity |-> "medium", message |-> "m3",
                                        advice |-> "a3"])>> }

\* crops_rules.json: rules for rice, with and without generic rules.
RuleFiles ==
  { [rice |-> rs] : rs \in RuleSets }
  \cup { [rice |-> rs, generic |-> gs] : rs \in RuleSets, gs \in GenericRules }

Temperatures == {10, 18, 35}
Humidities == {30, 90}
RainDays == {2}

\* The observations: numbers for some of the fields, never for none.
Observations ==
  { w \in UNION { [ks -> Temperatures \cup Humidities \cup RainDays] :
                    ks \in SUBSET {"temperature", "humidity", "consecutive_rain_days"} } :
      /\ DOMAIN w # {}
      /\ "temperature" \in DOMAIN w => w["temperature"] \in Temperatures
      /\ "humidity" \in DOMAIN w => w["humidity"] \in Humidities
      /\ "consecutive_rain_days" \in DOMAIN w => w["consecutive_rain_days"] \in RainDays }

RuleCrops == {"rice", "wheat", "generic"}

InitRules ==
  /\ HubInit
  /\ GovernanceIdle
  /\ all_rules \in RuleFiles
  /\ weather = <<>>
  /\ crop_asked = ""
  /\ verdict = NoVerdict
  /\ MonitorIdle

NextRules ==
  \/ \E w \in Observations : GetWeatherData(w)
  \/ \E cr \in RuleCrops : ApplyRules(cr)

SpecRules == InitRules /\ [][NextRules]_vars

\* The monitor of one server instance over the mirrored subscriptions of
\* two connections, started and stopped by the application's lifespan.
MonitorMirrors ==
  { (1 :> SubscriptionData("u1", <<37420, -122080>>, "rice")),
    (1 :> SubscriptionData("u1", <<37420, -122080>>, "rice")) @@
    (2 :> SubscriptionData("u2", <<37480, -122080>>, "wheat")) }

\* A file whose rice rules give a medium and a critical verdict and whose
\* generic rules give a high one.
MonitorRuleFiles ==
  { [rice |-> << Rule("damp", [conditions |-> [humidity |-> Str(<<">", "8", "0">>)],
                               severity |-> "medium", message |-> "m3", advice |-> "a3"]),
                 Rule("storm", [conditions |-> [temperature |-> Str(<<"<", "1", "5">>)],
                                severity |-> "critical", message |-> "m4",
                                advice |-> "a4"]) >>,
     generic |-> << Rule("heat", [conditions |-> [temperature |-> Str(<<">", "1", "7">>)],
                                  severity |-> "high", message |-> "m2",
                                  advice |-> "a2"]) >>] }

MonitorObservations ==
  { [temperature |-> 18, humidity |-> 90], [temperature |-> 10, humidity |-> 30] }

InitMonitor ==
  /\ active_connections = <<>>
  /\ location_subscriptions = <<>>
  /\ crop_subscriptions = <<>>
  /\ _lock = Free
  /\ wsState = [c \in Conns |-> "connecting"]
  /\ redis_subscriptions \in MonitorMirrors
  /\ pc = [c \in Conns |-> "idle"]
  /\ req = [c \in Conns |-> NoReq]
  /\ call = IdleCall
  /\ raised = FALSE
  /\ returnedDisconnect = [c \in Conns |-> 0]
  /\ channel = <<>>
  /\ lastPublish = [origin |-> None, channels |-> {}]
  /\ listener = Listening
  /\ store = <<>>
  /\ task = [p \in Tasks |-> IdleTask]
  /\ hist = [NoHist EXCEPT !.left = MonitorPushes]
  /\ all_rules \in MonitorRuleFiles
  /\ weather = <<>>
  /\ crop_asked = ""
  /\ verdict = NoVerdict
  /\ monitor = [running |-> FALSE, _task |-> 0, call |-> "idle", calls |-> 0]
  /\ loops = [i \in LoopIds |-> NoLoop]

\* The steps of the pipeline of a loop that is not being cancelled.
PipelineStep ==
  /\ \E i \in LoopIds : loops[i].pc = "pipeline" /\ ~loops[i].cancel
  /\ \/ GovernanceStep
     \/ \E p \in Tasks, sent \in {"ok", "failed"} : PushDeliver(p, sent)
     \/ \E p \in Tasks, logged \in BOOLEAN : LogAndMark(p, logged)

LoopStep(i) ==
  \/ WakeUp(i)
  \/ \E n \in 0..NumConns, enum_failed \in BOOLEAN : Enumerate(i, n, enum_failed)
  \/ \E w \in MonitorObservations, fetched \in BOOLEAN : CheckSubscription(i, w, fetched)
  \/ \E published \in BOOLEAN : MonitorPublish(i, published)
  \/ \E fcm_token \in BOOLEAN : MonitorPush(i, fcm_token)
  \/ PushReturns(i)
  \/ Cancelled(i)

NextMonitor ==
  \/ Start
  \/ Stop
  \/ StopReturns
  \/ \E i \in LoopIds : LoopStep(i)
  \/ PipelineStep

SpecMonitor == InitMonitor /\ [][NextMonitor]_vars

\* The event loop runs a task that is ready: a cancelled task gets its
\* CancelledError, and a stop() whose awaited task has ended goes on.
SpecMonitorLive ==
  /\ SpecMonitor
  /\ \A i \in LoopIds : WF_vars(Cancelled(i))
  /\ WF_vars(StopReturns)

\* ------------------------------------------------------------------ properties
\* c occurs in some entry of the location index or of the crop index.
InIndex(c) ==
  \/ \E k \in DOMAIN location_subscriptions : c \in location_subscriptions[k]
  \/ \E k \in DOMAIN crop_subscriptions : c \in crop_subscriptions[k]

\* The list b holds exactly one socket, once.
OneLeft(b) == \E c \in Conns : b = BagOf({c})

\* C1: once a disconnect(c) has returned, c is in neither the connection
\* table nor any entry of the location or crop index, and a broadcast of any
\* of the four kinds that starts afterwards has no send to c in its snapshot.
C1_DisconnectedIsGone ==
  [][/\ \A c \in Conns :
          returnedDisconnect'[c] > 0 => c \notin Registered' /\ ~InIndex(c)'
     /\ CallerIdle =>
          \A c \in Conns : returnedDisconnect[c] > 0 => call'.pending[c] = 0]_vars

\* A broadcast to all is under way with a send still to make while a socket
\* whose handler has finished its disconnect() is not part of it.
C1_Witness ==
  \E c, d \in Conns :
    /\ returnedDisconnect[c] > 0 /\ pc[c] = "done" /\ c \notin Registered
    /\ call.op = "broadcast_to_all" /\ call.phase = "send"
    /\ call.pending[d] = 1 /\ call.pending[c] = 0 /\ call.sent[c] = 0

\* The socket a disconnect() in progress is removing (0: none): it holds the
\* lock across its await of the Redis delete.
Removing ==
  IF _lock = Free THEN 0 ELSE IF _lock = Worker THEN call.target ELSE _lock[2]

\* The two indices agree with the recorded sets of the sockets of S, hold
\* only registered sockets and have no empty entry.
IndexSymmetricFor(S) ==
  /\ \A c \in S \cap Registered :
       /\ \A k \in active_connections[c].locations :
            c \in Subscribers(location_subscriptions, k)
       /\ \A k \in active_connections[c].crops :
            c \in Subscribers(crop_subscriptions, k)
  /\ \A k \in DOMAIN location_subscriptions :
       /\ location_subscriptions[k] # {}
       /\ \A c \in location_subscriptions[k] :
            c \in Registered /\ k \in active_connections[c].locations
  /\ \A k \in DOMAIN crop_subscriptions :
       /\ crop_subscriptions[k] # {}
       /\ \A c \in crop_subscriptions[k] :
            c \in Registered /\ k \in active_connections[c].crops

\* C2 as stated: in every reachable state a socket is in the location index
\* under a bucket exactly when it is registered and the bucket is in its
\* recorded location set, likewise for crops; no index entry holds an
\* unregistered socket and none is empty.
C2_IndexSymmetricAlways == IndexSymmetricFor(Conns)

\* C2, amended: the same in every reachable state for every socket other than
\* the one a disconnect() in progress is removing; in particular for every
\* socket whenever the registry lock is free.
C2_IndexSymmetric == IndexSymmetricFor(Conns \ {Removing})

\* A socket subscribed to a second bucket and unsubscribed from its crop while
\* the disconnect() of another socket waits for its Redis delete.
C2_Witness ==
  \E c, d \in Conns :
    /\ c # d /\ Removing = d
    /\ c \in Registered
    /\ Cardinality(active_connections[c].locations) = 2
    /\ active_connections[c].crops = {}

\* C3: one broadcast_to_matching_clients call attempts exactly one send to
\* every socket in the union of the location index entry of the envelope's
\* bucket and the crop index entry of its crop (a socket in both included),
\* none to any other socket, and leaves its send loop only when no send is left.
C3_MatchingOnceEach ==
  [][/\ call'.op = "broadcast_to_matching_clients" =>
          /\ \A c \in Conns :
               call'.sent[c] + call'.pending[c] = IF c \in call'.expect THEN 1 ELSE 0
          /\ call'.phase # "send" => BagEmpty(call'.pending)
     /\ call.op = "broadcast_to_matching_clients" /\ call.phase = "send"
        /\ call'.op = "idle" => OneLeft(call.pending) /\ raised' = raised]_vars

\* A matching broadcast has sent to a socket that is in the location entry and
\* in the crop entry, and still has a send to make to one that is in the crop
\* entry only.
C3_Witness ==
  \E c, d \in Conns :
    /\ call.op = "broadcast_to_matching_clients" /\ call.phase = "send"
    /\ call.sent[c] = 1 /\ call.pending[c] = 0 /\ call.pending[d] = 1
    /\ c \in Registered /\ d \in Registered
    /\ call.location_key \in active_connections[c].locations
    /\ call.crop \in active_connections[c].crops
    /\ call.location_key \notin active_connections[d].locations
    /\ call.crop \in active_connections[d].crops

\* The envelope e names the bucket and, ignoring letter case, the crop that
\* socket c connected with.
SameBucketAndCrop(c, e) ==
  /\ _get_location_key(active_connections[c].pos[1], active_connections[c].pos[2])
       = _get_location_key(e.pos[1], e.pos[2])
  /\ Lower(active_connections[c].crop) = Lower(e.crop)

\* C4: an envelope published by publish_alert reaches the listener once; when
\* the listener hands it to broadcast_to_matching_clients, every registered
\* socket that connected with coordinates of the envelope's 0.1-degree bucket
\* and with the envelope's crop up to letter case is in the snapshot once,
\* with the envelope's payload as the message; the call attempts at most one
\* send per socket and leaves its send loop only when no send is left.
C4_OneCopyThroughFabric ==
  [][/\ lastPublish' # lastPublish /\ lastPublish'.origin = "publish_alert" =>
          Len(channel') = Len(channel) + 1
     /\ Len(channel') < Len(channel) =>
          \A c \in Registered :
            SameBucketAndCrop(c, Head(channel)) =>
              /\ call'.pending[c] = 1 /\ call'.sent[c] = 0
              /\ call'.msg = Head(channel).data
     /\ call'.op = "broadcast_to_matching_clients" =>
          /\ \A c \in Conns : call'.sent[c] + call'.pending[c] <= 1
          /\ call'.phase # "send" => BagEmpty(call'.pending)
     /\ call.op = "broadcast_to_matching_clients" /\ call.phase = "send"
        /\ call'.op = "idle" => OneLeft(call.pending) /\ raised' = raised]_vars

\* The socket connected at 37.42,-122.08 with "potato" has been sent its one
\* copy of the alert published at 37.421,-122.079 for "Potato".
C4_Witness ==
  \E c, d \in Conns :
    /\ c \in Registered
    /\ active_connections[c].pos = <<37420, -122080>>
    /\ active_connections[c].crop = "potato"
    /\ lastPublish.origin = "publish_alert"
    /\ lastPublish.channels = PublishAlertChannels(<<37421, -122079>>, "Potato")
    /\ call.op = "broadcast_to_matching_clients" /\ call.phase = "send"
    /\ call.location_key = _get_location_key(37421, -122079)
    /\ call.crop = "potato" /\ call.msg \in Payloads
    /\ call.sent[c] = 1 /\ c \notin call.failed /\ call.pending[d] = 1

\* C5 as stated, its first half: an alert the alert monitor publishes is
\* published on a channel the fabric's listener is subscribed to.
C5_MonitorAlertReachesListener ==
  lastPublish.origin = "alert_monitor" =>
    lastPublish.channels \cap ListenerChannels # {}

\* C6: in each of the four broadcasts the send loop goes on to the end of the
\* snapshot whatever sends fail, nothing is raised to the caller, and when the
\* broadcast returns every socket whose send failed is in neither the
\* connection table nor an index entry.
C6_FailedSendIsCleanedUp ==
  [][/\ call.op \in Broadcasts /\ call.phase = "send" /\ call'.phase # "send" =>
          OneLeft(call.pending) /\ raised' = raised
     /\ call.op \in Broadcasts /\ call'.op = "idle" =>
          /\ raised' = raised
          /\ \A c \in call.failed : c \notin Registered' /\ ~InIndex(c)']_vars

\* A broadcast is removing a socket whose send failed, after a send to
\* another socket of the snapshot that succeeded.
C6_Witness ==
  \E c, d \in Conns :
    /\ call.op \in Broadcasts /\ call.phase = "redis_delete"
    /\ call.target = c /\ c \in call.failed /\ ~InIndex(c)
    /\ call.sent[d] = 1 /\ d \notin call.failed /\ d \in Registered

\* C7 as stated: when disconnect_by_user_and_location has returned, every
\* socket of the user that was registered in the bucket of (lat, lon), with
\* the crop when one is given, is closed and out of the table, and the
\* returned count is their number.
C7_ClosesTheBucket ==
  call.op = "disconnect_by_user_and_location" /\ call.phase = "returned" =>
    /\ \A c \in call.expect : c \notin Registered /\ wsState[c] = "closed"
    /\ call.count = Cardinality(call.expect)

\* This step is a call of disconnect(c): by the handler's finally clause, by
\* the worker after a failed personal send or a close, or by a clean-up loop.
DisconnectCalled(c) ==
  \/ pc[c] = "receive" /\ pc'[c] # "receive"
  \/ call.phase = "disconnect" /\ call.target = c /\ call' # call
  \/ /\ call.phase = "cleanup" /\ call' # call
     /\ \/ c \in call'.cleaned \ call.cleaned
        \/ call'.op = "idle" /\ call.disconnected \ call.cleaned = {c}

\* C8: a disconnect(c) for a socket that is not in the connection table (a
\* second call, or a socket never registered) raises nothing and leaves the
\* table, the location index and the crop index as they were.
C8_DisconnectIdempotent ==
  [][\A c \in Conns \ Registered :
       DisconnectCalled(c) => registry' = registry /\ raised' = raised]_vars

\* Two disconnect() calls for one socket have returned while another socket
\* is registered.
C8_Witness ==
  \E c, d \in Conns :
    /\ returnedDisconnect[c] = 2 /\ c \notin Registered
    /\ d \in Registered /\ InIndex(d)

\* C9 as stated: once a disconnect(c) has returned, the store holds no mirror
\* entry for c.
C9_NoMirrorAfterDisconnect ==
  \A c \in Conns : returnedDisconnect[c] > 0 => c \notin DOMAIN redis_subscriptions

\* C10 as stated: once a disconnect(c) has returned, called by the handler or
\* by a broadcast's clean-up, the channel of c is closed.
C10_ClosedAfterDisconnect ==
  \A c \in Conns : returnedDisconnect[c] > 0 => wsState[c] = "closed"

\* A should_send_notification() returns in this step, and hist'.last holds
\* its arguments and its result.
ShouldSendReturns == hist'.last # hist.last

\* The call that returns had force=false and a severity other than critical.
Ordinary(l) == ~l.force /\ l.args[3] # "critical"

\* C11: should_send_notification() called with severity critical or with
\* force=true returns should_send=true with reason critical_priority, whatever
\* markers are set and whatever the hourly and daily counters hold.
C11_CriticalAlwaysSent ==
  [][ShouldSendReturns /\ ~Ordinary(hist'.last)
       => hist'.last.check = Decision(TRUE, "critical_priority")]_vars

\* A forced call for a severity below critical has returned critical_priority
\* where its marker is live and both counters are at their ceilings.
C11_Witness ==
  /\ hist.last.op = "should_send"
  /\ hist.last.force /\ hist.last.args[3] # "critical"
  /\ hist.last.check = Decision(TRUE, "critical_priority")
  /\ hist.last.args \in hist.marked /\ IsDuplicate(store, hist.last.args)
  /\ OverHourly(store, hist.last.args[1]) /\ OverDaily(store, hist.last.args[1])

\* A should_send_notification() is called and returns in this step, before
\* it reads a counter: the task that called it is idle as it was.
ReturnsAtOnce == ShouldSendReturns /\ task' = task

\* Task p reads the dedup key in this step and goes on to the counters.
PassesDedup(p) == task[p].pc = "idle" /\ task'[p].pc = "get_hourly"

\* C12: a should_send_notification() with force=false and a severity other
\* than critical, issued while a marker that mark_notification_sent() set for
\* the same four values has not expired, returns should_send=false with
\* reason duplicate_recent.
C12_MarkedIsDuplicate ==
  [][/\ \A p \in Tasks : PassesDedup(p) => task'[p].args \notin hist.marked
     /\ ReturnsAtOnce /\ Ordinary(hist'.last) /\ hist'.last.args \in hist.marked
          => hist'.last.check = Decision(FALSE, "duplicate_recent")]_vars

\* Such a call has returned duplicate_recent.
C12_Witness ==
  /\ hist.last.op = "should_send" /\ Ordinary(hist.last)
  /\ hist.last.args \in hist.marked
  /\ hist.last.check = Decision(FALSE, "duplicate_recent")

\* a and b differ in the field i and in no other.
DifferOnlyIn(a, b, i) == \A j \in 1..4 : (a[j] = b[j]) <=> (j # i)

\* C13: should_send_notification() returns duplicate_recent only for four
\* values for which mark_notification_sent() has set a marker that has not
\* expired: a marker for values that differ in any field, the content summary
\* included, makes no duplicate.
C13_DuplicateOnlyIfMarked ==
  [][ShouldSendReturns /\ hist'.last.check.reason = "duplicate_recent"
       => hist'.last.args \in hist.marked]_vars

\* A call has been approved where a marker is live for values that differ
\* from its own in the content summary only.
C13_Witness ==
  /\ hist.last.check = Decision(TRUE, "approved")
  /\ hist.last.args \notin hist.marked
  /\ \E a \in hist.marked :
       DifferOnlyIn(a, hist.last.args, 4) /\ IsDuplicate(store, a)

\* C14: once five calls of mark_notification_sent() for a user have returned
\* with no key expiring in between, so that they lie within one hour, a
\* should_send_notification() called afterwards for that user with
\* force=false and a severity other than high and critical, which finds no
\* marker for its own values, returns should_send=false with reason
\* rate_limit_hourly.
C14_FiveMarksLimitHourly ==
  [][\A p \in Tasks :
       /\ task[p].pc = "get_hourly" /\ task'[p] # task[p]
       /\ task[p].args[3] \notin {"high", "critical"}
       /\ task[p].marks >= MAX_NOTIFICATIONS_PER_HOUR
       => /\ hist'.last.args = task[p].args
          /\ hist'.last.check = Decision(FALSE, "rate_limit_hourly")]_vars

\* The number a counter key holds, 0 when the store does not have the key.
Held(key) == IF key \in DOMAIN store THEN store[key].value ELSE 0

\* C15: a should_send_notification() with severity high and force=false that
\* found no marker goes past the hourly counter whatever it holds, and
\* returns at the daily counter: rate_limit_daily when that counter holds 20
\* or more, approved when it holds less.
C15_HighSkipsHourly ==
  [][\A p \in Tasks :
       task[p].args[3] = "high" /\ task'[p] # task[p]
       => /\ task[p].pc = "get_hourly" => task'[p].pc = "get_daily"
          /\ task[p].pc = "get_daily"
               => /\ hist'.last.args = task[p].args
                  /\ hist'.last.check =
                       IF Held(daily_key(task[p].args[1])) >= MAX_NOTIFICATIONS_PER_DAY
                       THEN Decision(FALSE, "rate_limit_daily")
                       ELSE Decision(TRUE, "approved")]_vars

\* A call with severity high has been approved where the hourly counter is
\* at its ceiling and the daily counter below its own.
C15_Witness ==
  /\ hist.last.op = "should_send"
  /\ hist.last.args[3] = "high" /\ ~hist.last.force
  /\ hist.last.check = Decision(TRUE, "approved")
  /\ Held(hourly_key(hist.last.args[1])) >= MAX_NOTIFICATIONS_PER_HOUR
  /\ Held(daily_key(hist.last.args[1])) < MAX_NOTIFICATIONS_PER_DAY
  /\ ~IsDuplicate(store, hist.last.args)

Governed(s) ==
  [k \in {x \in DOMAIN s : \A u \in PushUsers : x # batch_key(u)} |-> s[k]]

\* A key of the store expires in this step.
KeyExpires == DOMAIN store' # DOMAIN store /\ DOMAIN store' \subseteq DOMAIN store

\* C17: in _send_fcm_notification() a marker or a counter is written only by
\* the mark_notification_sent() of a pipeline whose push FCM has reported
\* sent: a pipeline that is told not to send, finds no token, or whose push
\* fails leaves the markers and the counters as they are.
C17_MarkOnlyAfterSuccess ==
  [][Governed(store') # Governed(store) /\ ~KeyExpires
       => \E p \in Tasks :
            /\ task'[p] # task[p]
            /\ task[p].op = "send_fcm" /\ task[p].sent = "ok"
            /\ task[p].pc \in {"log", "mark_set_hourly", "mark_set_daily"}]_vars

\* A pipeline whose push was accepted has set its marker.
C17_Witness ==
  \E p \in Tasks :
    /\ task[p].op = "send_fcm" /\ task[p].sent = "ok"
    /\ task[p].pc = "mark_get_hourly"
    /\ task[p].args \in hist.marked /\ IsDuplicate(store, task[p].args)

\* The rate counters of the store.
RateCounters == {k \in DOMAIN store : \E a \in GovRequests : k \in {hourly_key(a[1]), daily_key(a[1])}}

\* C18: every hourly and daily counter in the store has an expiration,
\* whatever the interleaving of mark_notification_sent() calls and of key
\* expirations, so that a user at a ceiling is below it again after a while.
C18_CountersExpire == \A k \in RateCounters : store[k].expires

\* The rules loaded for the crop asked that match the observation, by their
\* positions in the file, and a rule's severity and tier.
RulesAsked == load_rules(crop_asked)
MatchingRules ==
  { i \in 1..Len(RulesAsked) :
      evaluate_conditions(weather, Get(RulesAsked[i].def, "conditions", <<>>)) }
SeverityOf(i) == Get(RulesAsked[i].def, "severity", "low")
Tiers == <<"low", "medium", "high", "critical">>
Tier(i) == CHOOSE n \in 1..Len(Tiers) : Tiers[n] = SeverityOf(i)
IsVerdictOf(i) ==
  /\ verdict.risk = RulesAsked[i].name
  /\ verdict.severity = SeverityOf(i)
  /\ verdict.message = Get(RulesAsked[i].def, "message", "")
  /\ verdict.advice = Get(RulesAsked[i].def, "advice", "")

\* C19: when rules match the observation and each of them carries one of the
\* four tiers, the verdict of apply_rules() is that of a matching rule of the
\* highest tier present (low < medium < high < critical), and of the first
\* such rule in the order of the file; the verdict is thus a function of the
\* observation, the crop and the rule file.
C19_HighestTierFirstWins ==
  (/\ crop_asked # ""
   /\ MatchingRules # {}
   /\ \A i \in MatchingRules : \E n \in 1..Len(Tiers) : Tiers[n] = SeverityOf(i))
  => \E i \in MatchingRules :
       /\ IsVerdictOf(i)
       /\ \A j \in MatchingRules : Tier(j) <= Tier(i)
       /\ \A j \in MatchingRules : Tier(j) = Tier(i) => i <= j

\* A lower rule matches first, then two rules of the top tier: the verdict
\* is the first of the two.
C19_Witness ==
  /\ crop_asked # ""
  /\ \E k, i, j \in MatchingRules :
       /\ k < i /\ i < j
       /\ SeverityOf(k) = "medium" /\ SeverityOf(i) = "high" /\ SeverityOf(j) = "high"
       /\ IsVerdictOf(i)

\* C20: when no rule loaded for the crop matches the observation, whatever
\* the observation and the rule file, apply_rules() returns the no-risk
\* verdict: risk "none", severity "low".
C20_NoMatchNoRisk ==
  crop_asked # "" /\ MatchingRules = {}
  => verdict.risk = "none" /\ verdict.severity = "low"

\* Rules were loaded, none matched, and the verdict is the no-risk verdict.
C20_Witness ==
  /\ crop_asked # ""
  /\ Len(RulesAsked) = MaxRules
  /\ MatchingRules = {}
  /\ verdict.risk = "none"

\* C21: the severity of every verdict apply_rules() returns is one of low,
\* medium, high and critical, whatever the observation and the rule file,
\* also for rules without a severity or with one outside the four tiers.
C21_SeverityIsATier ==
  crop_asked # "" => \E n \in 1..Len(Tiers) : Tiers[n] = verdict.severity

\* What the operator strings of the rule files mean: each names a comparison
\* and its threshold.
Meaning ==
  (<<">", "=", "8", "5">> :> [op |-> ">=", threshold |-> 85]) @@
  (<<">", "1", "7">> :> [op |-> ">", threshold |-> 17]) @@
  (<<">", "8", "0">> :> [op |-> ">", threshold |-> 80]) @@
  (<<"<", "=", "3", "0">> :> [op |-> "<=", threshold |-> 30]) @@
  (<<"<", "1", "5">> :> [op |-> "<", threshold |-> 15])

\* The value of field k for range and operator conditions: 0 when absent.
FieldOrZero(k) == IF k \in DOMAIN weather THEN weather[k] ELSE 0

\* The comparison m of field k with its threshold is true.
Compares(k, m) ==
  CASE m.op = ">=" -> FieldOrZero(k) >= m.threshold
    [] m.op = "<=" -> FieldOrZero(k) <= m.threshold
    [] m.op = ">" -> FieldOrZero(k) > m.threshold
    [] m.op = "<" -> FieldOrZero(k) < m.threshold

\* Condition cond on field k holds for the observation.
Holds(k, cond) ==
  CASE cond.type = "list" ->
         cond.value[1] <= FieldOrZero(k) /\ FieldOrZero(k) <= cond.value[2]
    [] cond.type = "str" -> Compares(k, Meaning[cond.value])
    [] cond.type = "num" -> k \in DOMAIN weather /\ weather[k] = cond.value

\* Every condition of the i-th rule loaded holds.
AllHold(i) ==
  LET conds == IF "conditions" \in DOMAIN RulesAsked[i].def
               THEN RulesAsked[i].def.conditions ELSE <<>>
  IN \A k \in DOMAIN conds : Holds(k, conds[k])

\* C22: a rule matches the observation exactly when each of its conditions
\* holds: a range [low, high] iff low <= v <= high, an operator condition
\* iff the comparison with its threshold is true, an exact match iff the
\* field equals the value, an absent field being 0 for ranges and operators.
\* The verdict is that of a rule only if all of the rule's conditions hold,
\* and it is that of some rule whenever all conditions of some rule hold.
C22_MatchesIffAllHold ==
  crop_asked # ""
  => /\ \A i \in 1..Len(RulesAsked) : i \in MatchingRules <=> AllHold(i)
     /\ \A i \in 1..Len(RulesAsked) : IsVerdictOf(i) => AllHold(i)
     /\ (\E i \in 1..Len(RulesAsked) : AllHold(i))
          => \E i \in 1..Len(RulesAsked) : IsVerdictOf(i)

\* Temperature 18 and humidity 90 get the verdict of the rule that asks for
\* humidity >= 85 and temperature in [15, 22], in a file of MaxRules rules.
C22_Witness ==
  /\ crop_asked # ""
  /\ \E i \in 1..Len(RulesAsked) :
       /\ IsVerdictOf(i)
       /\ RulesAsked[i].name = "fungal"
       /\ {"temperature", "humidity"} \subseteq DOMAIN weather
       /\ weather["temperature"] = 18 /\ weather["humidity"] = 90
  /\ Len(RulesAsked) = MaxRules

\* C23: apply_rules() for a crop without an entry in the rule file returns
\* what apply_rules() for "generic" returns on the same observation.
C23_UnknownCropIsGeneric ==
  [][/\ crop_asked # "" /\ crop_asked \notin DOMAIN all_rules
     /\ crop_asked' = "generic" /\ weather' = weather
     => verdict' = verdict]_vars

\* A crop without an entry got the verdict of a generic rule.
C23_Witness ==
  /\ crop_asked = "wheat"
  /\ "generic" \in DOMAIN all_rules
  /\ verdict.risk = "damp"

\* C30: publish_alert(lat, lon, crop, alert_data) publishes its envelope on
\* the global alerts channel, on the location channel whose key is the
\* registry's bucket key of (lat, lon), and on the crop channel of the
\* lower-cased crop.
C30_PublishOnBucketChannel ==
  [][lastPublish'.origin = "publish_alert" /\ Len(channel') > Len(channel)
     => LET m == channel'[Len(channel')]
            bucket == _get_location_key(m.pos[1], m.pos[2])
        IN lastPublish'.channels =
             {<<"weather:alerts">>,
              <<"weather:location:", bucket[1], bucket[2]>>,
              <<"weather:crop:", Lower(m.crop)>>}]_vars

\* The _monitor_loop() tasks that have not ended.
ActiveLoops == {i \in LoopIds : loops[i].pc \notin {"none", "done"}}
StartCalled == monitor'.calls # monitor.calls /\ monitor'.running
StopCalled == monitor'.calls # monitor.calls /\ ~monitor'.running

\* C24: the monitor starts stopped, with no loop.  At most one loop is
\* active at any time; whenever no stop() is in progress, a loop is active
\* exactly when the monitor is running, and it is the task the monitor
\* holds; start() while running and stop() while stopped leave the running
\* flag, the task held and every loop as they are.
C24_StartStopIdempotent ==
  /\ ~monitor.running /\ ActiveLoops = {}
  /\ [][/\ Cardinality(ActiveLoops') <= 1
        /\ monitor'.call = "idle"
             => /\ monitor'.running <=> ActiveLoops' # {}
                /\ monitor'.running => ActiveLoops' = {monitor'._task}
        /\ StartCalled /\ monitor.running
             => loops' = loops /\ monitor'._task = monitor._task
        /\ StopCalled /\ ~monitor.running
             => loops' = loops /\ monitor'._task = monitor._task]_vars

\* After MaxCalls calls of which one created a loop, the monitor is stopped
\* and its loop has ended: one of the calls was a start() while running or
\* a stop() while stopped.
C24_Witness ==
  /\ monitor.calls = MaxCalls
  /\ monitor.call = "idle"
  /\ ~monitor.running
  /\ Created = 1
  /\ loops[1].pc = "done"

\* The loop is inside the alert pipeline of a subscription.
Alerting(i) == loops[i].pc \in {"publish", "token", "pipeline"}

\* C25: within a tick, a publish, the start or a step of a push, and a
\* change of the store's dedup and rate keys happen only in the pipeline of
\* a subscription whose verdict is high or critical; a check that ends with
\* another verdict goes on to the next subscription leaving the fabric,
\* the tasks and the store as they are.
C25_AlertsOnlyHighOrCritical ==
  [][/\ (\/ fabric' # fabric
         \/ store' # store
         \/ \E p \in Tasks : task'[p] # task[p] /\ ~TaskIdle(p)')
        => \E i \in LoopIds :
             /\ Alerting(i)
             /\ crop_asked = redis_subscriptions[Head(loops[i].todo)].crop
             /\ verdict.severity \in {"high", "critical"}
     /\ \A i \in LoopIds :
          /\ loops[i].pc = "fetch" /\ loops'[i] # loops[i] /\ verdict' # NoVerdict
          /\ crop_asked' # crop_asked \/ verdict' # verdict \/ weather' # weather
          /\ verdict'.severity \notin {"high", "critical"}
          => /\ ~Alerting(i)'
             /\ fabric' = fabric /\ store' = store /\ task' = task /\ hist' = hist]_vars

\* A tick has ended after a medium verdict for its one subscription; nothing
\* was published, pushed or stored.
C25_Witness ==
  /\ \E i \in LoopIds : loops[i].pc = "sleep" /\ Len(loops[i].subs) = 1
  /\ verdict.severity = "medium"
  /\ lastPublish.origin = None
  /\ store = <<>>
  /\ hist.left = MonitorPushes

\* C26: a tick ends only when the last of its enumerated subscriptions has
\* been checked, and a check that raises is followed by the check of the
\* next subscription; the loop ends only by stop().
C26_FailureKeepsTickGoing ==
  [][\A i \in LoopIds :
       /\ loops[i].pc # "sleep" /\ loops'[i].pc = "sleep" => Len(loops[i].todo) <= 1
       /\ loops'[i].failed # loops[i].failed /\ Len(loops[i].todo) > 1
            => loops'[i].pc = "fetch" /\ loops'[i].todo = Tail(loops[i].todo)
       /\ loops[i].pc # "done" /\ loops'[i].pc = "done"
            => loops[i].cancel \/ ~monitor.running]_vars

\* The check of the first of two subscriptions raised, the second was
\* evaluated, and the tick has ended in its sleep.
C26_Witness ==
  \E i \in LoopIds :
    /\ loops[i].pc = "sleep"
    /\ loops[i].subs = <<1, 2>>
    /\ loops[i].failed = {1}
    /\ crop_asked = redis_subscriptions[2].crop
    /\ verdict # NoVerdict

\* C27: a tick whose enumeration of the subscriptions failed is followed by
\* the backoff sleep of 60 s, not by the sleep of check_interval.
C27_EnumerationFailureBacksOff ==
  [][\A i \in LoopIds :
       loops[i].pc # "sleep" /\ loops'[i].pc = "sleep" /\ loops'[i].enum_failed
       => loops'[i].wait = backoff]_vars

\* C28: when stop() returns, the loop it cancelled was not inside a tick:
\* it had not started, or it was asleep between two ticks.
C28_StopWaitsForTick ==
  [][monitor.call = "stop" /\ monitor'.call = "idle"
     => loops[monitor._task].cut \in {"none", "created", "sleep"}]_vars

\* C29: a loop that is asleep when stop() is called starts no further tick:
\* it ends in that sleep, by the cancellation, and stop() returns.
C29_StopDuringSleepEndsLoop ==
  /\ [][\A i \in LoopIds :
          loops[i].pc = "sleep" /\ ~monitor.running
          => loops'[i].pc = "sleep" \/ (loops'[i].pc = "done" /\ loops'[i].cut = "sleep")]_vars
  /\ \A i \in LoopIds :
       (monitor.call = "stop" /\ monitor._task = i /\ loops[i].pc = "sleep")
       ~> (monitor.call = "idle" /\ loops[i].pc = "done" /\ loops[i].cut = "sleep")

\* stop() has returned after it cancelled a loop asleep after a tick.
C29_Witness ==
  /\ monitor.call = "idle"
  /\ ~monitor.running
  /\ \E i \in LoopIds :
       /\ monitor._task = i
       /\ loops[i].pc = "done" /\ loops[i].cut = "sleep"
       /\ loops[i].subs # <<>>

\* C31: a message that cannot be decoded, or one whose callback raises, does
\* not end the listener loop: the step that takes it leaves the listener
\* listening, with the message logged and passed over, and no message ends
\* the listener (it ends only by a transport failure or by cancellation).
C31_BadMessageKeepsListener ==
  [][/\ (/\ listener.pc = "listening" /\ Len(channel') < Len(channel)
          /\ ~(IsJson(Head(channel)) /\ ~CallbackRaises(Head(channel)))
          => /\ listener'.pc = "listening"
             /\ listener'.skipped >= listener.skipped
             /\ call' = call)
     /\ (listener.pc = "listening" /\ listener'.pc # "listening"
          => channel' = channel)]_vars

\* A well-formed envelope is in the hands of the callback, which is sending
\* it to a client, after the listener passed over two bad messages.
C31_Witness ==
  /\ listener.pc = "listening"
  /\ listener.skipped = 2
  /\ call.op = "broadcast_to_matching_clients"
  /\ call.phase = "send"
  /\ call.msg \in Payloads

\* C32 as stated: a listener task that has ended has ended as failed or as
\* cancelled, so that its owner can observe the failure.
C32_ListenerFailureIsObservable ==
  listener.pc = "done" => listener.outcome \in {"raised", "cancelled"}

\* C33: a broadcast does not hold the registry lock while it sends: in every
\* state in which a broadcast is at a send, the lock is free or held by an
\* endpoint handler inside its disconnect(), never by the broadcasting task,
\* so that connects and disconnects go on while the send is blocked.
C33_SendsOutsideLock ==
  call.op \in Broadcasts /\ call.phase = "send"
  => /\ _lock # Worker
     /\ _lock # Free => \E c \in Conns : _lock = Handler(c) /\ pc[c] = "redis_delete"

\* A broadcast_to_all is still to send to socket 1 of its snapshot; since the
\* snapshot, socket 2 has connected and the disconnect() of socket 1 has
\* completed.
C33_Witness ==
  /\ call.op = "broadcast_to_all"
  /\ call.phase = "send"
  /\ call.pending[1] > 0
  /\ call.expect = {1}
  /\ 1 \notin Registered
  /\ returnedDisconnect[1] > 0
  /\ 2 \in Registered

\* C34: no task asks for the registry lock while it holds it: a task that is
\* about to call disconnect() (a broadcast's clean-up, send_personal_message
\* after a failed send, disconnect_by_user_and_location after a close, a
\* handler's finally clause) is not the holder, and the holder is a task
\* inside disconnect() at its delete.  So the lock is always given back, and
\* every call that waits for it goes on: there is no deadlock.
C34_NoSelfDeadlock ==
  /\ [](call.phase \in {"cleanup", "disconnect"} => _lock # Worker)
  /\ [](\A c \in Conns : pc[c] \in {"idle", "receive"} => _lock # Handler(c))
  /\ [](_lock = Worker => call.phase = "redis_delete")
  /\ [](\A c \in Conns : _lock = Handler(c) => pc[c] = "redis_delete")
  /\ (_lock # Free ~> _lock = Free)
  /\ (call.phase \in {"cleanup", "disconnect"}
        ~> call.phase \notin {"cleanup", "disconnect"})
  /\ \A c \in Conns : pc[c] = "redis_delete" ~> pc[c] = "done"

\* disconnect_by_user_and_location, having closed socket 1, is about to call
\* disconnect(1) while the handler of socket 2 holds the lock inside its own
\* disconnect().
C34_Witness ==
  /\ call.op = "disconnect_by_user_and_location"
  /\ call.phase = "disconnect"
  /\ call.target = 1
  /\ _lock = Handler(2)

\* C35 as stated: a socket that was opened with coordinates and a crop, is
\* registered and has its handler in the receive loop has its mirror entry in
\* the store, where the monitor's enumeration finds it.
C35_MirrorWhileRegistered ==
  \A c \in Registered :
    /\ pc[c] = "receive"
    /\ active_connections[c].pos # NoPos
    /\ active_connections[c].crop # None
    => c \in DOMAIN redis_subscriptions

\* C36 as stated: a socket whose endpoint handler has exited is not in the
\* registry.
C36_RemovedAtHandlerExit ==
  \A c \in Conns : pc[c] = "done" => c \notin Registered

\* C37 as stated: no broadcast sends an envelope on a socket whose handler
\* has not sent the connection confirmation yet (it is still inside
\* connect(), at the store's set).
C37_ConfirmationFirst ==
  [][\A c \in Conns : Send(c, "ok") => pc[c] # "redis_set"]_vars

\* C38 as stated: when no mark_notification_sent() is in progress, the hourly
\* and the daily counter of a user both hold the number of the user's
\* mark_notification_sent() calls that have returned (no key has expired).
C38_CountersCountEveryMark ==
  (\A p \in Tasks : task[p].op # "mark_sent")
  => \A a \in RaceMarks :
       /\ Held(hourly_key(a[1])) = Count(hist.marks, a[1])
       /\ Held(daily_key(a[1])) = Count(hist.marks, a[1])
====
